---- MODULE Spec2Model ----
(***************************************************************************)
(* Model of vifm's session-state persistence (src/cfg/info.c): capture of  *)
(* the live state into a JSON document (serialize_state), merge of the     *)
(* captured document with the one another instance left on disk            *)
(* (merge_states) and the transactional writer (write_info_file).          *)
(*                                                                         *)
(* JSON values are modelled structurally:                                  *)
(*   - the root object and the small fixed-shape objects (a pane tab, a    *)
(*     history entry, a mark) are functions from key strings to values;    *)
(*     a key outside the DOMAIN is an absent key;                          *)
(*   - the keyed sections whose keys are data (cmds, marks, bmarks, regs)  *)
(*     are insertion-ordered sequences of [name, value] pairs, as parson   *)
(*     stores them;                                                        *)
(*   - arrays are sequences;                                               *)
(*   - a NULL object or array behaves as an empty one in every getter.     *)
(***************************************************************************)
EXTENDS Integers, Sequences, FiniteSets, TLC

(***************************************************************************)
(* Bounds of the model.                                                    *)
(***************************************************************************)
\* longest flat history list drawn for current and for admixture
MaxLen == 2
\* number of save cycles the instances may start altogether
MaxSaves == 3
\* number of distinct keys drawn for a keyed section (marks, bookmarks,
\* commands, registers)
MaxKeys == 2

(***************************************************************************)
(* Generic helpers.                                                        *)
(***************************************************************************)
RECURSIVE SeqsUpTo(_, _)
SeqsUpTo(S, n) ==
  IF n = 0 THEN {<<>>}
  ELSE LET shorter == SeqsUpTo(S, n - 1)
       IN shorter \cup {Append(s, x) : s \in {t \in shorter : Len(t) = n - 1}, x \in S}

Range(s) == {s[i] : i \in 1..Len(s)}

NoRepeat(s) == \A i, j \in 1..Len(s) : i # j => s[i] # s[j]

IsSubSeq(s, t) ==
  \* s is t with some elements removed (relative order kept)
  \E idx \in SeqsUpTo(1..Len(t), Len(s)) :
     /\ Len(idx) = Len(s)
     /\ \A i \in 1..Len(s) : t[idx[i]] = s[i]
     /\ \A i \in 1..(Len(s) - 1) : idx[i] < idx[i + 1]

(***************************************************************************)
(* The document tree (parson).                                             *)
(***************************************************************************)
EmptyDoc == <<>>

json_object_has(obj, key) == key \in DOMAIN obj

\* json_object_get_array / json_object_get_object: NULL when the key is
\* absent; a NULL array or object has count 0
json_object_get_array(obj, key) == IF key \in DOMAIN obj THEN obj[key] ELSE <<>>

json_object_get_object(obj, key) == IF key \in DOMAIN obj THEN obj[key] ELSE <<>>

\* json_object_set_value on the root or a fixed-shape object: replaces the
\* value of an existing key, adds the key otherwise
json_object_set(obj, key, value) == (key :> value) @@ obj

\* keyed sections: sequences of [name, value]
json_object_has_value(obj, name) == \E i \in 1..Len(obj) : obj[i].name = name

json_object_get_value(obj, name) ==
  obj[CHOOSE i \in 1..Len(obj) : obj[i].name = name].value

json_object_set_value(obj, name, value) ==
  IF json_object_has_value(obj, name)
  THEN [i \in 1..Len(obj) |->
          IF obj[i].name = name THEN [name |-> name, value |-> value] ELSE obj[i]]
  ELSE Append(obj, [name |-> name, value |-> value])

Names(obj) == [i \in 1..Len(obj) |-> obj[i].name]

\* a field whose value has another type than its reader expects is held
\* under the key WrongType(key); under the key itself a value always has the
\* expected type
WrongType(key) == key \o "?"

\* json_object_get_value(obj, key) != NULL
json_value_present(obj, key) == key \in DOMAIN obj \/ WrongType(key) \in DOMAIN obj

\* get_str/get_double/get_int/get_bool: the return value, val != NULL
get_str(obj, key) == json_value_present(obj, key)

get_double(obj, key) == json_value_present(obj, key)

get_int(obj, key) == json_value_present(obj, key)

get_bool(obj, key) == json_value_present(obj, key)

\* *value after get_*(obj, key, value) for a local that was not initialized:
\* it is assigned only when the value has the expected type, and otherwise
\* still holds whatever it held, uninit
value_after_get(obj, key, uninit) == IF key \in DOMAIN obj THEN obj[key] ELSE uninit


(***************************************************************************)
(* The live application model read by the serializer.  vifm_info is the    *)
(* set of VINFO_* bits of cfg.vifm_info.  uninit is the value a local of   *)
(* the loader or of the merge holds before anything is assigned to it.     *)
(***************************************************************************)
AllFlags == {"options", "filetypes", "commands", "marks", "bookmarks", "tui",
             "dhistory", "state", "dirstack", "registers", "savedirs",
             "chistory", "shistory", "phistory", "fhistory", "cs"}

\* sorting keys are 1..SK_LAST, negated for descending order; a view has
\* SK_COUNT slots and SK_NONE fills the unused ones
SK_LAST == 3

SK_COUNT == SK_LAST

SK_NONE == SK_LAST + 1

SK_DEFAULT == 2

Abs(n) == IF n < 0 THEN 0 - n ELSE n

\* a view with one directory in its history; its options array is abstracted
\* to one token that names the view's own settings
DefaultView(dir) ==
  [curr_dir |-> dir,
   history |-> <<[dir |-> dir, file |-> "f", rel_pos |-> 0]>>,
   history_pos |-> 0, history_num |-> 1,
   invert |-> FALSE, hide_dot |-> TRUE, manual_filter |-> "", auto_filter |-> "",
   sort |-> [i \in 1..SK_COUNT |-> IF i = 1 THEN SK_DEFAULT ELSE SK_NONE],
   options |-> <<dir>>]

EmptyHist == [items |-> <<>>, pos |-> -1]

\* hist_t holding the given items, items[0] first
HistOf(items) == [items |-> items, pos |-> Len(items) - 1]

DefaultModel ==
  [vifm_info |-> AllFlags, history_len |-> 5,
   lwin |-> DefaultView("/l"), rwin |-> DefaultView("/r"),
   curr_view |-> "lwin", preview |-> FALSE, splitter_pos |-> -1,
   split |-> "v", number_of_windows |-> 2,
   options |-> <<[name |-> "vicmd", value |-> "vim"]>>,
   filetypes |-> <<>>, xfiletypes |-> <<>>, fileviewers |-> <<>>,
   cmds |-> <<>>, marks |-> <<>>, bmarks |-> <<>>,
   cmd_hist |-> EmptyHist, search_hist |-> EmptyHist,
   prompt_hist |-> EmptyHist, filter_hist |-> EmptyHist,
   regs |-> <<>>, dir_stack |-> <<>>, dir_stack_changed |-> FALSE,
   trash_list |-> <<>>, use_term_multiplexer |-> FALSE, cs_name |-> "default",
   dirs_on_disk |-> {"/l", "/r"}, uninit |-> 0]

(***************************************************************************)
(* State capture: serialize_state and the store_* functions.               *)
(***************************************************************************)
\* flist_hist_save(view, path, file, rel_pos): nothing changes when the entry
\* at the position of the view is for the directory already; otherwise the
\* entries after the position are dropped, the oldest entry is dropped when
\* the history is full, and the new entry is put last
flist_hist_save(view, path, file, rel_pos, history_len) ==
  IF history_len <= 0 THEN view
  ELSE IF view.history_pos >= 0 /\ view.history_num > 0
          /\ view.history[view.history_pos + 1].dir = path
  THEN view
  ELSE LET kept == IF view.history_num = 0 THEN <<>>
                   ELSE SubSeq(view.history, 1, view.history_pos + 1)
           room == IF Len(kept) >= history_len THEN Tail(kept) ELSE kept
           hist == Append(room, [dir |-> path, file |-> file, rel_pos |-> rel_pos])
       IN [view EXCEPT !.history = hist, !.history_pos = Len(hist) - 1,
                       !.history_num = Len(hist)]

\* flist_hist_save(view, NULL, NULL, -1): flushes the current position of the
\* view into its history
flist_hist_save_current(view, history_len) ==
  flist_hist_save(view, view.curr_dir, "", 0, history_len)

\* the entries of a view's history up to its current position
saved_history(view) ==
  [i \in 1..(IF view.history_pos + 1 < view.history_num THEN view.history_pos + 1
              ELSE view.history_num) |->
     [dir |-> view.history[i].dir, file |-> view.history[i].file,
      relpos |-> view.history[i].rel_pos]]

store_dhistory(obj, view, m) ==
  json_object_set(json_object_set(obj, "history",
                                  saved_history(flist_hist_save_current(view, m.history_len))),
                  "restore-last-location", "savedirs" \in m.vifm_info)

store_filters(view_data, view) ==
  json_object_set(view_data, "filters",
                  [invert |-> view.invert, dot |-> view.hide_dot,
                   manual |-> view.manual_filter, auto |-> view.auto_filter])

\* every token is formatted from lwin's fields, whichever view is passed
store_view_options(parent, view, m) ==
  json_object_set(parent, "options", m.lwin.options)

\* a string of the document that the program scans is a sequence of
\* characters
DigitChars == <<"0", "1", "2", "3", "4", "5", "6", "7", "8", "9">>

IsDigit(c) == \E d \in 1..10 : DigitChars[d] = c

DigitVal(c) == (CHOOSE d \in 1..10 : DigitChars[d] = c) - 1

\* the decimal digits of n >= 0
RECURSIVE utoa(_)
utoa(n) ==
  IF n < 10 THEN <<DigitChars[n + 1]>>
  ELSE utoa(n \div 10) \o <<DigitChars[(n % 10) + 1]>>

\* snprintf("%d")
itoa(n) == IF n < 0 THEN <<"-">> \o utoa(0 - n) ELSE utoa(n)

\* the keys of the view up to the first unused slot, each printed in
\* decimal and followed by a comma unless it is the last one
RECURSIVE make_sort_info(_)
make_sort_info(sort) ==
  IF sort = <<>> THEN <<>>
  ELSE IF Abs(Head(sort)) > SK_LAST THEN <<>>
  ELSE LET is_last_option == Len(sort) = 1 \/ Abs(sort[2]) > SK_LAST
       IN itoa(Head(sort)) \o (IF is_last_option THEN <<>> ELSE <<",">>)
            \o make_sort_info(Tail(sort))

store_sort_info(obj, view) == json_object_set(obj, "sorting", make_sort_info(view.sort))

\* the parts of a pane tab in the order store_view stores them, each under
\* the flag of that name
ViewSections == <<"dhistory", "state", "options", "tui">>

\* one `if(cfg.vifm_info & VINFO_X)` block of store_view
store_view_section(obj, section, view, m) ==
  IF section \notin m.vifm_info THEN obj
  ELSE CASE section = "dhistory" ->
              IF m.history_len > 0 THEN store_dhistory(obj, view, m) ELSE obj
         [] section = "state" -> store_filters(obj, view)
         [] section = "options" -> store_view_options(obj, view, m)
         [] section = "tui" -> store_sort_info(obj, view)

RECURSIVE store_view_sections(_, _, _, _)
store_view_sections(obj, sections, view, m) ==
  IF sections = <<>> THEN obj
  ELSE CHOOSE stored \in
         {store_view_sections(o, Tail(sections), view, m) :
            o \in {store_view_section(obj, Head(sections), view, m)}} : TRUE

store_view(view, m) == [ptabs |-> <<store_view_sections(EmptyDoc, ViewSections, view, m)>>]

\* both panes of the only global tab
store_panes(m) == <<store_view(m.lwin, m), store_view(m.rwin, m)>>

\* variant: the keys of the TUI state are written whatever the flags are
store_gtab_with_tui_state(m) ==
  ("active-pane" :> IF m.curr_view = "lwin" THEN 0 ELSE 1) @@
  [panes |-> store_panes(m),
   preview |-> m.preview,
   splitter |-> [pos |-> m.splitter_pos, orientation |-> m.split,
                 expanded |-> (m.number_of_windows = 1)]]

store_gtab(m) ==
  IF "tui" \in m.vifm_info
  THEN ("active-pane" :> IF m.curr_view = "lwin" THEN 0 ELSE 1) @@
       [panes |-> store_panes(m),
        preview |-> m.preview,
        splitter |-> [pos |-> m.splitter_pos, orientation |-> m.split,
                      expanded |-> (m.number_of_windows = 1)]]
  ELSE [panes |-> store_panes(m)]

\* variant: a history without items is written as an empty array
store_history_when_empty(root, node, hist) ==
  json_object_set(root, node,
    [i \in 1..(hist.pos + 1) |-> hist.items[hist.pos + 2 - i]])

\* variant: the items are written from items[0] to items[pos]
store_history_newest_first(root, node, hist) ==
  IF hist.pos < 0 THEN root
  ELSE json_object_set(root, node, [i \in 1..(hist.pos + 1) |-> hist.items[i]])

\* items[pos], items[pos - 1], ..., items[0]; no array at all for an empty
\* history
store_history(root, node, hist) ==
  IF hist.pos < 0 THEN root
  ELSE json_object_set(root, node,
         [i \in 1..(hist.pos + 1) |-> hist.items[hist.pos + 2 - i]])

\* one token per option, each formatted from the current value of the
\* option: "history=%d" from cfg.history_len, the others from the values
\* that m.options names
store_global_options(root, m) ==
  json_object_set(root, "options",
                  <<[name |-> "history", value |-> m.history_len]>> \o m.options)

\* double_char(str, ','): every comma is written twice
RECURSIVE double_char(_)
double_char(str) ==
  IF str = <<>> THEN <<>>
  ELSE IF Head(str) = "," THEN <<",", ",">> \o double_char(Tail(str))
  ELSE <<Head(str)>> \o double_char(Tail(str))

\* the records of one association, in order; records with an empty command
\* and builtin ones are skipped
RECURSIVE store_assoc_records(_, _)
store_assoc_records(matchers, records) ==
  IF records = <<>> THEN <<>>
  ELSE LET ft_record == Head(records)
           doubled_commas_cmd == double_char(ft_record.command)
           rest == store_assoc_records(matchers, Tail(records))
       IN IF ft_record.command = <<>> \/ ft_record.type = "builtin" THEN rest
          ELSE IF ft_record.description = <<>>
          THEN <<[matchers |-> matchers, cmd |-> doubled_commas_cmd]>> \o rest
          ELSE <<[matchers |-> matchers,
                  cmd |-> <<"{">> \o ft_record.description \o <<"}">>
                          \o doubled_commas_cmd]>> \o rest

RECURSIVE store_assoc_entries(_)
store_assoc_entries(assocs) ==
  IF assocs = <<>> THEN <<>>
  ELSE store_assoc_records(Head(assocs).matchers, Head(assocs).records)
       \o store_assoc_entries(Tail(assocs))

store_assocs(root, node, assocs) ==
  json_object_set(root, node, store_assoc_entries(assocs))

\* vle_cmds_list_udcs() lists each user command once
store_cmds(root, m) ==
  json_object_set(root, "cmds",
    [i \in 1..Len(m.cmds) |-> [name |-> m.cmds[i].name, value |-> m.cmds[i].body]])

store_marks(root, m) ==
  json_object_set(root, "marks",
    [i \in 1..Len(m.marks) |->
       [name |-> m.marks[i].name,
        value |-> [dir |-> m.marks[i].directory, file |-> m.marks[i].file,
                   ts |-> m.marks[i].timestamp]]])

store_bmarks(root, m) ==
  json_object_set(root, "bmarks",
    [i \in 1..Len(m.bmarks) |->
       [name |-> m.bmarks[i].path,
        value |-> [tags |-> m.bmarks[i].tags, ts |-> m.bmarks[i].timestamp]]])

\* registers without files are not written
store_regs(root, m) ==
  json_object_set(root, "regs",
    SelectSeq([i \in 1..Len(m.regs) |->
                 [name |-> m.regs[i].name, value |-> m.regs[i].files]],
              LAMBDA r : r.value # <<>>))

store_dir_stack(root, m) ==
  json_object_set(root, "dir-stack",
    [i \in 1..Len(m.dir_stack) |->
       ("left-dir" :> m.dir_stack[i].lpane_dir) @@ ("left-file" :> m.dir_stack[i].lpane_file)
       @@ ("right-dir" :> m.dir_stack[i].rpane_dir)
       @@ ("right-file" :> m.dir_stack[i].rpane_file)])

\* no "trash" key at all when the trash list is empty
store_trash(root, m) ==
  IF Len(m.trash_list) > 0
  THEN json_object_set(root, "trash",
         [i \in 1..Len(m.trash_list) |->
            [trashed |-> m.trash_list[i].trash_name,
             original |-> m.trash_list[i].path]])
  ELSE root

\* the sections of the root object in the order serialize_state stores them
\* and merge_states merges them
RootSections ==
  <<"options", "filetypes", "commands", "marks", "bookmarks", "chistory", "shistory",
    "phistory", "fhistory", "registers", "dirstack", "state", "cs">>

\* one `if(cfg.vifm_info & VINFO_X)` block of serialize_state
store_section(root, section, m) ==
  IF section \notin m.vifm_info THEN root
  ELSE CASE section = "options" -> store_global_options(root, m)
         [] section = "filetypes" ->
              store_assocs(store_assocs(store_assocs(root, "assocs", m.filetypes),
                                        "xassocs", m.xfiletypes),
                           "viewers", m.fileviewers)
         [] section = "commands" -> store_cmds(root, m)
         [] section = "marks" -> store_marks(root, m)
         [] section = "bookmarks" -> store_bmarks(root, m)
         [] section = "chistory" -> store_history(root, "cmd-hist", m.cmd_hist)
         [] section = "shistory" -> store_history(root, "search-hist", m.search_hist)
         [] section = "phistory" -> store_history(root, "prompt-hist", m.prompt_hist)
         [] section = "fhistory" -> store_history(root, "lfilt-hist", m.filter_hist)
         [] section = "registers" -> store_regs(root, m)
         [] section = "dirstack" -> store_dir_stack(root, m)
         [] section = "state" ->
              json_object_set(root, "use-term-multiplexer", m.use_term_multiplexer)
         [] section = "cs" -> json_object_set(root, "color-scheme", m.cs_name)

\* the blocks of serialize_state one after another, each working on the
\* object the block before it left
RECURSIVE store_sections(_, _, _)
store_sections(root, sections, m) ==
  IF sections = <<>> THEN root
  ELSE CHOOSE stored \in
         {store_sections(r, Tail(sections), m) :
            r \in {store_section(root, Head(sections), m)}} : TRUE

\* the global tab and the trash are stored whatever the flags are
serialize_state(m) ==
  store_sections(store_trash(json_object_set(EmptyDoc, "gtabs", <<store_gtab(m)>>), m),
                 RootSections, m)

\* the live model after serialize_state: store_dhistory flushed the position
\* of both views into their histories
model_after_capture(m) ==
  IF "dhistory" \in m.vifm_info /\ m.history_len > 0
  THEN [m EXCEPT !.lwin = flist_hist_save_current(m.lwin, m.history_len),
                 !.rwin = flist_hist_save_current(m.rwin, m.history_len)]
  ELSE m


(***************************************************************************)
(* Queries of the live model and of the file system used by the merge.     *)
(***************************************************************************)
\* non-zero when the view's in-memory history has an entry for the directory
flist_hist_contains(view, dir) ==
  \E i \in 1..Len(view.history) : i <= view.history_pos + 1 /\ view.history[i].dir = dir

is_dir(m, dir) == dir \in m.dirs_on_disk

\* non-zero when the list has a record under the matchers whose written form
\* is the command
ft_assoc_exists(assocs, matchers, cmd) ==
  \E i \in 1..Len(store_assoc_entries(assocs)) :
     /\ store_assoc_entries(assocs)[i].matchers = matchers
     /\ store_assoc_entries(assocs)[i].cmd = cmd

\* non-zero when there is no such mark or its timestamp is older than the
\* given one
is_mark_older(m, name, than) ==
  \A i \in 1..Len(m.marks) : m.marks[i].name = name => than > m.marks[i].timestamp

bmark_is_older(m, path, than) ==
  \A i \in 1..Len(m.bmarks) : m.bmarks[i].path = path => than > m.bmarks[i].timestamp

trash_has_entry(m, original, trashed) ==
  \E i \in 1..Len(m.trash_list) :
     m.trash_list[i].path = original /\ m.trash_list[i].trash_name = trashed

dir_stack_changed(m) == m.dir_stack_changed

(***************************************************************************)
(* The merge engine: merge_states and the per-section merge functions.     *)
(* current is the captured document, admixture the parsed on-disk one      *)
(* (EmptyDoc for NULL), m the live model of the merging instance.          *)
(***************************************************************************)
\* variant: a directory that is gone from the disk passes the filter
RECURSIVE new_dhistory_any_dir(_, _, _)
new_dhistory_any_dir(updated, view, m) ==
  IF updated = <<>> THEN <<>>
  ELSE LET entry == Head(updated)
           rest == new_dhistory_any_dir(Tail(updated), view, m)
       IN IF get_str(entry, "dir") /\ ~flist_hist_contains(view, entry.dir)
          THEN <<entry>> \o rest
          ELSE rest

\* entries of updated that pass the filter, in order
RECURSIVE new_dhistory(_, _, _)
new_dhistory(updated, view, m) ==
  IF updated = <<>> THEN <<>>
  ELSE LET entry == Head(updated)
           rest == new_dhistory(Tail(updated), view, m)
       IN IF get_str(entry, "dir") /\ ~flist_hist_contains(view, entry.dir)
             /\ is_dir(m, entry.dir)
          THEN <<entry>> \o rest
          ELSE rest

\* current and admixture are pane tabs
merge_dhistory(current, admixture, view, m) ==
  LET history == json_object_get_array(current, "history")
      updated == json_object_get_array(admixture, "history")
      extra_space == m.history_len - 1 - view.history_pos
  IN IF extra_space = 0 \/ Len(updated) = 0 THEN current
     ELSE json_object_set(current, "history", new_dhistory(updated, view, m) \o history)

\* variant: the first pane tab of the admixture is merged however many the
\* admixture has
merge_pane_first_ptab(current_pane, updated_pane, view, m) ==
  LET current_ptabs == json_object_get_array(current_pane, "ptabs")
      updated_ptabs == json_object_get_array(updated_pane, "ptabs")
  IN IF Len(current_ptabs) = 1 /\ Len(updated_ptabs) >= 1
     THEN json_object_set(current_pane, "ptabs",
            <<merge_dhistory(current_ptabs[1], updated_ptabs[1], view, m)>>)
     ELSE current_pane

merge_pane(current_pane, updated_pane, view, m) ==
  LET current_ptabs == json_object_get_array(current_pane, "ptabs")
      updated_ptabs == json_object_get_array(updated_pane, "ptabs")
  IN IF Len(current_ptabs) = 1 /\ Len(updated_ptabs) = 1
     THEN json_object_set(current_pane, "ptabs",
            <<merge_dhistory(current_ptabs[1], updated_ptabs[1], view, m)>>)
     ELSE current_pane

\* the i-th element of an array as an object, NULL past its end
json_array_get_object(arr, i) == IF i <= Len(arr) THEN arr[i] ELSE EmptyDoc

merge_tabs(current, admixture, m) ==
  LET current_gtabs == json_object_get_array(current, "gtabs")
      updated_gtabs == json_object_get_array(admixture, "gtabs")
  IN IF "dhistory" \notin m.vifm_info THEN current
     ELSE IF Len(current_gtabs) # 1 \/ Len(updated_gtabs) # 1 THEN current
     ELSE LET current_gtab == current_gtabs[1]
              updated_gtab == updated_gtabs[1]
              current_panes == json_object_get_array(current_gtab, "panes")
              updated_panes == json_object_get_array(updated_gtab, "panes")
              panes == [i \in 1..Len(current_panes) |->
                          IF i <= 2
                          THEN merge_pane(current_panes[i],
                                          json_array_get_object(updated_panes, i),
                                          IF i = 1 THEN m.lwin ELSE m.rwin, m)
                          ELSE current_panes[i]]
          IN json_object_set(current, "gtabs",
                             <<json_object_set(current_gtab, "panes", panes)>>)

\* variant: an entry is skipped when the list has any record under its
\* matchers
RECURSIVE new_assocs_by_matchers(_, _)
new_assocs_by_matchers(updated, assocs) ==
  IF updated = <<>> THEN <<>>
  ELSE LET entry == Head(updated)
           rest == new_assocs_by_matchers(Tail(updated), assocs)
       IN IF get_str(entry, "matchers") /\ get_str(entry, "cmd")
             /\ ~\E i \in 1..Len(assocs) : assocs[i].matchers = entry.matchers
          THEN <<entry>> \o rest
          ELSE rest

\* entries of updated to append, in order
RECURSIVE new_assocs(_, _)
new_assocs(updated, assocs) ==
  IF updated = <<>> THEN <<>>
  ELSE LET entry == Head(updated)
           rest == new_assocs(Tail(updated), assocs)
       IN IF get_str(entry, "matchers") /\ get_str(entry, "cmd")
             /\ ~ft_assoc_exists(assocs, entry.matchers, entry.cmd)
          THEN <<entry>> \o rest
          ELSE rest

\* appending to a NULL array (no such key in current) fails and adds nothing
merge_assocs(current, admixture, node, assocs) ==
  LET entries == json_object_get_array(current, node)
      updated == json_object_get_array(admixture, node)
  IN IF json_object_has(current, node)
     THEN json_object_set(current, node, entries \o new_assocs(updated, assocs))
     ELSE current

\* variant: the admixture's command replaces the one current has
RECURSIVE merge_commands_from_overwriting(_, _)
merge_commands_from_overwriting(cmds, updated) ==
  IF updated = <<>> THEN cmds
  ELSE merge_commands_from_overwriting(
         json_object_set_value(cmds, Head(updated).name, Head(updated).value),
         Tail(updated))

RECURSIVE merge_commands_from(_, _)
merge_commands_from(cmds, updated) ==
  IF updated = <<>> THEN cmds
  ELSE LET name == Head(updated).name
       IN merge_commands_from(
            IF ~json_object_has_value(cmds, name)
            THEN json_object_set_value(cmds, name, Head(updated).value)
            ELSE cmds,
            Tail(updated))

\* setting a value in a NULL object (no such key in current) fails
merge_commands(current, admixture) ==
  LET cmds == json_object_get_object(current, "cmds")
      updated == json_object_get_object(admixture, "cmds")
  IN IF json_object_has(current, "cmds")
     THEN json_object_set(current, "cmds", merge_commands_from(cmds, updated))
     ELSE current

\* variant: any admixture mark with a timestamp replaces current's
RECURSIVE merge_marks_from_any_ts(_, _, _)
merge_marks_from_any_ts(bmarks, updated, m) ==
  IF updated = <<>> THEN bmarks
  ELSE merge_marks_from_any_ts(
         IF get_double(Head(updated).value, "ts")
         THEN json_object_set_value(bmarks, Head(updated).name, Head(updated).value)
         ELSE bmarks,
         Tail(updated), m)

RECURSIVE merge_marks_from(_, _, _)
merge_marks_from(bmarks, updated, m) ==
  IF updated = <<>> THEN bmarks
  ELSE LET mark == Head(updated).value
           name == Head(updated).name
       IN merge_marks_from(
            IF get_double(mark, "ts")
               /\ is_mark_older(m, name, value_after_get(mark, "ts", m.uninit))
            THEN json_object_set_value(bmarks, name, mark)
            ELSE bmarks,
            Tail(updated), m)

merge_marks(current, admixture, m) ==
  LET bmarks == json_object_get_object(current, "marks")
      updated == json_object_get_object(admixture, "marks")
  IN IF json_object_has(current, "marks")
     THEN json_object_set(current, "marks", merge_marks_from(bmarks, updated, m))
     ELSE current

RECURSIVE merge_bmarks_from(_, _, _)
merge_bmarks_from(bmarks, updated, m) ==
  IF updated = <<>> THEN bmarks
  ELSE LET bmark == Head(updated).value
           path == Head(updated).name
       IN merge_bmarks_from(
            IF get_double(bmark, "ts") /\ bmark_is_older(m, path, bmark.ts)
            THEN json_object_set_value(bmarks, path, bmark)
            ELSE bmarks,
            Tail(updated), m)

merge_bmarks(current, admixture, m) ==
  LET bmarks == json_object_get_object(current, "bmarks")
      updated == json_object_get_object(admixture, "bmarks")
  IN IF json_object_has(current, "bmarks")
     THEN json_object_set(current, "bmarks", merge_bmarks_from(bmarks, updated, m))
     ELSE current

\* variant: the new admixture entries are put after current's entries
merge_history_appending(current, admixture, node) ==
  LET updated == json_object_get_array(admixture, node)
      entries == json_object_get_array(current, node)
      trie == Range(entries)
      merged == entries \o SelectSeq(updated, LAMBDA entry : entry \notin trie)
  IN IF Len(updated) = 0 THEN current
     ELSE json_object_set(current, node, merged)

\* variant: a non-empty admixture list takes the place of current's list
merge_history_replacing(current, admixture, node) ==
  LET updated == json_object_get_array(admixture, node)
  IN IF Len(updated) = 0 THEN current
     ELSE json_object_set(current, node, updated)

\* the trie holds the values of current's entries
merge_history(current, admixture, node) ==
  LET updated == json_object_get_array(admixture, node)
      entries == json_object_get_array(current, node)
      trie == Range(entries)
      merged == SelectSeq(updated, LAMBDA entry : entry \notin trie) \o entries
  IN IF Len(updated) = 0 THEN current
     ELSE json_object_set(current, node, merged)

\* variant: files of an admixture register that current's register of that
\* name lacks are added to it
RECURSIVE merge_regs_from_joining(_, _)
merge_regs_from_joining(regs, updated) ==
  IF updated = <<>> THEN regs
  ELSE LET name == Head(updated).name
           files == Head(updated).value
       IN merge_regs_from_joining(
            IF ~json_object_has_value(regs, name)
            THEN json_object_set_value(regs, name, files)
            ELSE json_object_set_value(regs, name,
                   json_object_get_value(regs, name)
                   \o SelectSeq(files, LAMBDA file :
                                  file \notin Range(json_object_get_value(regs, name)))),
            Tail(updated))

\* variant: every admixture register is added, also under a name that
\* current has
RECURSIVE merge_regs_from_unchecked(_, _)
merge_regs_from_unchecked(regs, updated) ==
  IF updated = <<>> THEN regs
  ELSE merge_regs_from_unchecked(Append(regs, Head(updated)), Tail(updated))

RECURSIVE merge_regs_from(_, _)
merge_regs_from(regs, updated) ==
  IF updated = <<>> THEN regs
  ELSE LET name == Head(updated).name
       IN merge_regs_from(
            IF ~json_object_has_value(regs, name)
            THEN json_object_set_value(regs, name, Head(updated).value)
            ELSE regs,
            Tail(updated))

merge_regs(current, admixture) ==
  LET regs == json_object_get_object(current, "regs")
      updated == json_object_get_object(admixture, "regs")
  IN IF json_object_has(current, "regs")
     THEN json_object_set(current, "regs", merge_regs_from(regs, updated))
     ELSE current

\* variant: the admixture's stack is taken also when the stack was changed
merge_dir_stack_always(current, admixture, m) ==
  IF json_object_has(admixture, "dir-stack")
  THEN json_object_set(current, "dir-stack", admixture["dir-stack"])
  ELSE current

\* variant: an admixture without a stack empties an unmodified stack
merge_dir_stack_from_null(current, admixture, m) ==
  IF ~dir_stack_changed(m)
  THEN json_object_set(current, "dir-stack", json_object_get_array(admixture, "dir-stack"))
  ELSE current

\* json_object_set_value with a NULL value (admixture has no dir-stack) fails
\* and leaves current as it is
merge_dir_stack(current, admixture, m) ==
  IF ~dir_stack_changed(m) /\ json_object_has(admixture, "dir-stack")
  THEN json_object_set(current, "dir-stack", admixture["dir-stack"])
  ELSE current

\* variant: admixture entries are not looked up in the trash list
RECURSIVE new_trash_unchecked(_, _)
new_trash_unchecked(updated, m) ==
  IF updated = <<>> THEN <<>>
  ELSE LET entry == Head(updated)
           rest == new_trash_unchecked(Tail(updated), m)
       IN IF get_str(entry, "trashed") /\ get_str(entry, "original")
          THEN <<entry>> \o rest
          ELSE rest

RECURSIVE new_trash(_, _)
new_trash(updated, m) ==
  IF updated = <<>> THEN <<>>
  ELSE LET entry == Head(updated)
           rest == new_trash(Tail(updated), m)
       IN IF get_str(entry, "trashed") /\ get_str(entry, "original")
             /\ ~trash_has_entry(m, entry.original, entry.trashed)
          THEN <<entry>> \o rest
          ELSE rest

\* appending to a NULL array (current has no "trash" key) fails and adds
\* nothing
merge_trash(current, admixture, m) ==
  LET trash == json_object_get_array(current, "trash")
      updated == json_object_get_array(admixture, "trash")
  IN IF json_object_has(current, "trash")
     THEN json_object_set(current, "trash", trash \o new_trash(updated, m))
     ELSE current

\* one `if(cfg.vifm_info & VINFO_X)` block of merge_states
merge_section(current, section, admixture, m) ==
  IF section \notin m.vifm_info THEN current
  ELSE CASE section = "filetypes" ->
              merge_assocs(merge_assocs(merge_assocs(current, admixture, "assocs",
                                                     m.filetypes),
                                        admixture, "xassocs", m.xfiletypes),
                           admixture, "viewers", m.fileviewers)
         [] section = "commands" -> merge_commands(current, admixture)
         [] section = "marks" -> merge_marks(current, admixture, m)
         [] section = "bookmarks" -> merge_bmarks(current, admixture, m)
         [] section = "chistory" -> merge_history(current, admixture, "cmd-hist")
         [] section = "shistory" -> merge_history(current, admixture, "search-hist")
         [] section = "phistory" -> merge_history(current, admixture, "prompt-hist")
         [] section = "fhistory" -> merge_history(current, admixture, "lfilt-hist")
         [] section = "registers" -> merge_regs(current, admixture)
         [] section = "dirstack" -> merge_dir_stack(current, admixture, m)
         [] OTHER -> current

\* the blocks of merge_states one after another, each working on the
\* object the block before it left
RECURSIVE merge_sections(_, _, _, _)
merge_sections(current, sections, admixture, m) ==
  IF sections = <<>> THEN current
  ELSE CHOOSE merged \in
         {merge_sections(c, Tail(sections), admixture, m) :
            c \in {merge_section(current, Head(sections), admixture, m)}} : TRUE

\* variant: the directory stack is merged without looking at VINFO_DIRSTACK
merge_states_dirstack_unflagged(current, admixture, m) ==
  merge_trash(
    merge_dir_stack(
      merge_sections(merge_tabs(current, admixture, m),
                     SelectSeq(RootSections, LAMBDA section : section # "dirstack"),
                     admixture, m),
      admixture, m),
    admixture, m)

\* variant: the global options of the admixture replace the captured ones
merge_states_taking_options(current, admixture, m) ==
  IF "options" \in m.vifm_info /\ json_object_has(admixture, "options")
  THEN json_object_set(
         merge_trash(merge_sections(merge_tabs(current, admixture, m), RootSections,
                                    admixture, m),
                     admixture, m),
         "options", admixture["options"])
  ELSE merge_trash(merge_sections(merge_tabs(current, admixture, m), RootSections,
                                  admixture, m),
                   admixture, m)

\* tabs and trash are merged whatever the flags are
merge_states(current, admixture, m) ==
  merge_trash(merge_sections(merge_tabs(current, admixture, m), RootSections, admixture, m),
              admixture, m)


(***************************************************************************)
(* State apply: load_state and the load_* functions.                       *)
(***************************************************************************)
\* ":command name body": defines the command unless the name is taken
add_user_cmd(cmds, name, body) ==
  IF \E i \in 1..Len(cmds) : cmds[i].name = name THEN cmds
  ELSE Append(cmds, [name |-> name, body |-> body])

RECURSIVE load_cmds_from(_, _)
load_cmds_from(cmds, entries) ==
  IF entries = <<>> THEN cmds
  ELSE load_cmds_from(add_user_cmd(cmds, Head(entries).name, Head(entries).value),
                      Tail(entries))

load_cmds(root, m) ==
  [m EXCEPT !.cmds = load_cmds_from(m.cmds, json_object_get_object(root, "cmds"))]

\* regs_append(): adds the file to the register unless it is there already
regs_append(regs, name, file) ==
  IF \E i \in 1..Len(regs) : regs[i].name = name
  THEN [i \in 1..Len(regs) |->
          IF regs[i].name = name /\ file \notin Range(regs[i].files)
          THEN [regs[i] EXCEPT !.files = Append(@, file)]
          ELSE regs[i]]
  ELSE Append(regs, [name |-> name, files |-> <<file>>])

RECURSIVE regs_append_all(_, _, _)
regs_append_all(regs, name, files) ==
  IF files = <<>> THEN regs
  ELSE regs_append_all(regs_append(regs, name, Head(files)), name, Tail(files))

RECURSIVE load_regs_from(_, _)
load_regs_from(regs, entries) ==
  IF entries = <<>> THEN regs
  ELSE load_regs_from(regs_append_all(regs, Head(entries).name, Head(entries).value),
                      Tail(entries))

load_regs(root, m) ==
  [m EXCEPT !.regs = load_regs_from(m.regs, json_object_get_object(root, "regs"))]

\* trash_add_entry(): adds the pair unless it is there already
RECURSIVE load_trash_from(_, _)
load_trash_from(list, entries) ==
  IF entries = <<>> THEN list
  ELSE LET entry == Head(entries)
           known == \E i \in 1..Len(list) :
                      list[i].path = entry.original /\ list[i].trash_name = entry.trashed
       IN load_trash_from(
            IF get_str(entry, "trashed") /\ get_str(entry, "original") /\ ~known
            THEN Append(list, [trash_name |-> entry.trashed, path |-> entry.original])
            ELSE list,
            Tail(entries))

load_trash(root, m) ==
  [m EXCEPT !.trash_list = load_trash_from(m.trash_list, json_object_get_array(root, "trash"))]

\* a flat history cut down to its size newest items
hist_resize(hist, size) ==
  IF Len(hist.items) <= size THEN hist
  ELSE [items |-> SubSeq(hist.items, 1, size), pos |-> size - 1]

\* a view history cut down to its size newest entries
reduce_view_history(view, size) ==
  IF view.history_num <= size THEN view
  ELSE [view EXCEPT
          !.history = SubSeq(@, view.history_num - size + 1, view.history_num),
          !.history_num = size,
          !.history_pos = IF view.history_pos - (view.history_num - size) < 0 THEN 0
                          ELSE view.history_pos - (view.history_num - size)]

cfg_resize_histories(m, new_len) ==
  [m EXCEPT !.history_len = new_len,
            !.lwin = reduce_view_history(@, new_len),
            !.rwin = reduce_view_history(@, new_len),
            !.cmd_hist = hist_resize(@, new_len),
            !.search_hist = hist_resize(@, new_len),
            !.prompt_hist = hist_resize(@, new_len),
            !.filter_hist = hist_resize(@, new_len)]

\* hists_*_save(): the item becomes items[0]; an older copy of it is removed
\* and the oldest item is dropped when the list is at capacity
hist_add(hist, item, history_len) ==
  LET others == SelectSeq(hist.items, LAMBDA x : x # item)
      items == <<item>> \o others
      kept == IF Len(items) > history_len THEN SubSeq(items, 1, history_len) ELSE items
  IN IF history_len <= 0 THEN hist
     ELSE [items |-> kept, pos |-> Len(kept) - 1]

HistNodes == {"cmd-hist", "search-hist", "prompt-hist", "lfilt-hist"}

HistField(node) ==
  CASE node = "cmd-hist" -> "cmd_hist"
    [] node = "search-hist" -> "search_hist"
    [] node = "prompt-hist" -> "prompt_hist"
    [] node = "lfilt-hist" -> "filter_hist"

\* cfg_resize_histories() when the list given to the check is full; the list
\* given is always the filter history
ensure_history_not_full(m) ==
  IF m.filter_hist.pos + 1 = m.history_len
  THEN cfg_resize_histories(m, m.history_len + 1)
  ELSE m

append_to_history(m, node, item) ==
  LET m1 == ensure_history_not_full(m)
  IN [m1 EXCEPT ![HistField(node)] = hist_add(@, item, m1.history_len)]

RECURSIVE load_history_from(_, _, _)
load_history_from(m, node, entries) ==
  IF entries = <<>> THEN m
  ELSE load_history_from(append_to_history(m, node, Head(entries)), node, Tail(entries))

load_history(root, node, m) ==
  load_history_from(m, node, json_object_get_array(root, node))

\* the history of the view is grown when it is full, then the entry is saved
get_history(m, v, dir, file, rel_pos) ==
  LET m1 == IF m[v].history_num = m.history_len
            THEN cfg_resize_histories(m, m.history_len + 1)
            ELSE m
  IN [m1 EXCEPT ![v] = flist_hist_save(@, dir, file, rel_pos, m1.history_len)]

RECURSIVE load_dhistory_from(_, _, _)
load_dhistory_from(m, v, history) ==
  IF history = <<>> THEN m
  ELSE LET entry == Head(history)
       IN load_dhistory_from(
            IF get_str(entry, "dir") /\ get_str(entry, "file") /\ get_int(entry, "relpos")
            THEN get_history(m, v, entry.dir, entry.file,
                             IF value_after_get(entry, "relpos", m.uninit) < 0 THEN 0
                             ELSE value_after_get(entry, "relpos", m.uninit))
            ELSE m,
            v, Tail(history))

\* directory of the last entry that was replayed; "" for NULL
RECURSIVE last_dir(_)
last_dir(history) ==
  IF history = <<>> THEN ""
  ELSE LET entry == history[Len(history)]
       IN IF get_str(entry, "dir") /\ get_str(entry, "file") /\ get_int(entry, "relpos")
          THEN entry.dir
          ELSE last_dir(SubSeq(history, 1, Len(history) - 1))

\* variant: the current directory is restored on a reread as well
load_dhistory_on_reread(info, v, reread, m) ==
  IF /\ get_bool(info, "restore-last-location")
     /\ json_object_get_array(info, "history") # <<>>
     /\ info["restore-last-location"]
     /\ last_dir(json_object_get_array(info, "history")) # ""
  THEN [load_dhistory_from(m, v, json_object_get_array(info, "history")) EXCEPT
          ![v].curr_dir = last_dir(json_object_get_array(info, "history"))]
  ELSE load_dhistory_from(m, v, json_object_get_array(info, "history"))

load_dhistory(info, v, reread, m) ==
  IF /\ get_bool(info, "restore-last-location")
     /\ ~reread
     /\ json_object_get_array(info, "history") # <<>>
     /\ info["restore-last-location"]
     /\ last_dir(json_object_get_array(info, "history")) # ""
  THEN [load_dhistory_from(m, v, json_object_get_array(info, "history")) EXCEPT
          ![v].curr_dir = last_dir(json_object_get_array(info, "history"))]
  ELSE load_dhistory_from(m, v, json_object_get_array(info, "history"))

\* dot_filter_set(view, visible): the value of view->hide_dot afterwards
dot_filter_set(visible) == ~visible

\* both booleans are read from the "invert" key
load_filters(pane, v, m) ==
  IF ~json_object_has(pane, "filters") THEN m
  ELSE [m EXCEPT
          ![v].invert = IF get_bool(pane["filters"], "invert")
                        THEN pane["filters"]["invert"] ELSE @,
          ![v].hide_dot = IF get_bool(pane["filters"], "invert")
                          THEN dot_filter_set(~pane["filters"]["invert"]) ELSE @,
          ![v].manual_filter = IF get_str(pane["filters"], "manual")
                               THEN pane["filters"]["manual"] ELSE @,
          ![v].auto_filter = IF get_str(pane["filters"], "auto")
                             THEN pane["filters"]["auto"] ELSE @]

\* the string without its leading occurrences of c
RECURSIVE skip_char(_, _)
skip_char(str, c) ==
  IF str # <<>> /\ Head(str) = c THEN skip_char(Tail(str), c) ELSE str

RECURSIVE strtol_digits(_, _)
strtol_digits(str, acc) ==
  IF str # <<>> /\ IsDigit(Head(str))
  THEN strtol_digits(Tail(str), acc * 10 + DigitVal(Head(str)))
  ELSE [value |-> acc, endptr |-> str]

\* strtol(str, &endptr, 10): blanks, an optional sign and decimal digits;
\* endptr is str itself when no digit follows.  The strings here are too
\* short for a number to leave the range of long.
strtol(str) ==
  LET unsigned == skip_char(str, " ")
      negative == unsigned # <<>> /\ Head(unsigned) = "-"
      digits == IF unsigned # <<>> /\ Head(unsigned) \in {"-", "+"}
                THEN Tail(unsigned) ELSE unsigned
  IN IF digits # <<>> /\ IsDigit(Head(digits))
     THEN LET r == strtol_digits(digits, 0)
          IN [value |-> IF negative THEN 0 - r.value ELSE r.value, endptr |-> r.endptr]
     ELSE [value |-> 0, endptr |-> str]

\* MIN(SK_LAST, MAX(-SK_LAST, sort_opt))
sort_key(sort_opt) ==
  IF sort_opt > SK_LAST THEN SK_LAST
  ELSE IF sort_opt < 0 - SK_LAST THEN 0 - SK_LAST ELSE sort_opt

\* variant: the loop ends at a character no number starts with
sort_loop_step_stopping(line, keys) ==
  LET r == strtol(line)
  IN IF r.endptr # line
     THEN [line |-> skip_char(r.endptr, ","), keys |-> Append(keys, sort_key(r.value))]
     ELSE [line |-> <<>>, keys |-> keys]

\* one iteration of the loop of get_sort_info over the rest of the line and
\* the keys stored so far: a number is stored and passed, any other
\* character is passed; commas that follow are passed as well
sort_loop_step(line, keys) ==
  LET r == strtol(line)
  IN IF r.endptr # line
     THEN [line |-> skip_char(r.endptr, ","), keys |-> Append(keys, sort_key(r.value))]
     ELSE [line |-> skip_char(Tail(line), ","), keys |-> keys]

\* the loop: until the line ends or SK_COUNT keys are stored
RECURSIVE sort_loop(_, _)
sort_loop(line, keys) ==
  IF line = <<>> \/ Len(keys) >= SK_COUNT THEN keys
  ELSE LET next == sort_loop_step(line, keys) IN sort_loop(next.line, next.keys)

\* the keys of the line in the first slots; SK_NONE in the others;
\* SK_DEFAULT in the first slot when the line gave no key
get_sort_info(view, line) ==
  LET keys == sort_loop(line, <<>>)
  IN [view EXCEPT !.sort =
        [j \in 1..SK_COUNT |->
           IF j <= Len(keys) THEN keys[j]
           ELSE IF j = 1 THEN SK_DEFAULT ELSE SK_NONE]]

\* process_set_args() for the tokens of a view: the view takes the settings
\* the tokens name
load_view_options(parent, v, m) ==
  IF json_object_get_array(parent, "options") = <<>> THEN m
  ELSE [m EXCEPT ![v].options = json_object_get_array(parent, "options")]

\* the parts of a pane tab in the order load_pane applies them
PaneSteps == <<"history", "filters", "options", "sorting">>

load_pane_step(ptab, step, v, reread, m) ==
  CASE step = "history" -> load_dhistory(ptab, v, reread, m)
    [] step = "filters" -> load_filters(ptab, v, m)
    [] step = "options" -> load_view_options(ptab, v, m)
    [] step = "sorting" ->
         IF get_str(ptab, "sorting") THEN [m EXCEPT ![v] = get_sort_info(@, ptab["sorting"])]
         ELSE m

RECURSIVE load_pane_steps(_, _, _, _, _)
load_pane_steps(ptab, steps, v, reread, m) ==
  IF steps = <<>> THEN m
  ELSE CHOOSE loaded \in
         {load_pane_steps(ptab, Tail(steps), v, reread, n) :
            n \in {load_pane_step(ptab, Head(steps), v, reread, m)}} : TRUE

\* every pane tab of the pane is applied to the view, one after another
RECURSIVE load_ptabs(_, _, _, _)
load_ptabs(ptabs, v, reread, m) ==
  IF ptabs = <<>> THEN m
  ELSE CHOOSE loaded \in
         {load_ptabs(Tail(ptabs), v, reread, n) :
            n \in {load_pane_steps(Head(ptabs), PaneSteps, v, reread, m)}} : TRUE

load_pane(pane, v, reread, m) ==
  load_ptabs(json_object_get_array(pane, "ptabs"), v, reread, m)

\* variant: the active pane and the number of windows are applied on a
\* reread as well
load_gtab_tui_on_reread(gtab, reread, m) ==
  [m EXCEPT
     !.preview = IF get_bool(gtab, "preview") THEN gtab["preview"] ELSE @,
     !.split = IF get_str(json_object_get_object(gtab, "splitter"), "orientation")
               THEN (IF gtab["splitter"]["orientation"] = "v" THEN "v" ELSE "h")
               ELSE @,
     !.splitter_pos = IF get_int(json_object_get_object(gtab, "splitter"), "pos")
                      THEN gtab["splitter"]["pos"] ELSE @,
     !.curr_view = IF get_int(gtab, "active-pane") /\ gtab["active-pane"] = 1
                   THEN "rwin" ELSE @,
     !.number_of_windows =
        IF get_bool(json_object_get_object(gtab, "splitter"), "expanded")
        THEN (IF gtab["splitter"]["expanded"] THEN 1 ELSE 2)
        ELSE @]

\* preview, splitter and, on a first load only, the active pane and the
\* number of windows
load_gtab_tui(gtab, reread, m) ==
  [m EXCEPT
     !.preview = IF get_bool(gtab, "preview") THEN gtab["preview"] ELSE @,
     !.split = IF get_str(json_object_get_object(gtab, "splitter"), "orientation")
               THEN (IF gtab["splitter"]["orientation"] = "v" THEN "v" ELSE "h")
               ELSE @,
     !.splitter_pos = IF get_int(json_object_get_object(gtab, "splitter"), "pos")
                      THEN gtab["splitter"]["pos"] ELSE @,
     !.curr_view = IF ~reread /\ get_int(gtab, "active-pane") /\ gtab["active-pane"] = 1
                   THEN "rwin" ELSE @,
     !.number_of_windows =
        IF ~reread /\ get_bool(json_object_get_object(gtab, "splitter"), "expanded")
        THEN (IF gtab["splitter"]["expanded"] THEN 1 ELSE 2)
        ELSE @]

load_gtab(gtab, reread, m) ==
  load_gtab_tui(gtab, reread,
    load_pane(json_array_get_object(json_object_get_array(gtab, "panes"), 2), "rwin", reread,
      load_pane(json_array_get_object(json_object_get_array(gtab, "panes"), 1), "lwin",
                reread, m)))

\* every global tab of the document is applied, one after another
RECURSIVE load_gtabs(_, _, _)
load_gtabs(gtabs, reread, m) ==
  IF gtabs = <<>> THEN m
  ELSE CHOOSE loaded \in
         {load_gtabs(Tail(gtabs), reread, n) : n \in {load_gtab(Head(gtabs), reread, m)}} : TRUE

\* process_set_args() for a global token: 'history' resizes the histories,
\* any other option takes the value of the token
process_set_args(m, token) ==
  IF token.name = "history" THEN cfg_resize_histories(m, token.value)
  ELSE IF \E i \in 1..Len(m.options) : m.options[i].name = token.name
  THEN [m EXCEPT !.options = [i \in 1..Len(m.options) |->
                                 IF m.options[i].name = token.name THEN token
                                 ELSE m.options[i]]]
  ELSE [m EXCEPT !.options = Append(@, token)]

RECURSIVE load_options_from(_, _)
load_options_from(m, options) ==
  IF options = <<>> THEN m
  ELSE load_options_from(process_set_args(m, Head(options)), Tail(options))

load_options(parent, m) == load_options_from(m, json_object_get_array(parent, "options"))

\* variant: doubled commas are left as they are
replace_double_comma_keeping(cmd) == cmd

\* replace_double_comma(cmd): from left to right, a comma that is followed
\* by a comma is copied once and the second one skipped
RECURSIVE replace_double_comma(_)
replace_double_comma(cmd) ==
  IF cmd = <<>> THEN <<>>
  ELSE IF Head(cmd) = "," /\ Len(cmd) >= 2 /\ cmd[2] = ","
  THEN <<",">> \o replace_double_comma(Tail(Tail(cmd)))
  ELSE <<Head(cmd)>> \o replace_double_comma(Tail(cmd))

\* the commands of a written command list: a single comma separates two
\* commands, a doubled comma belongs to the command it is in
RECURSIVE split_commands(_, _)
split_commands(str, cmd) ==
  IF str = <<>> THEN <<cmd>>
  ELSE IF Head(str) = "," /\ Len(str) >= 2 /\ str[2] = ","
  THEN split_commands(Tail(Tail(str)), cmd \o <<",", ",">>)
  ELSE IF Head(str) = "," THEN <<cmd>> \o split_commands(Tail(str), <<>>)
  ELSE split_commands(Tail(str), Append(cmd, Head(str)))

\* the record of one written command, which may start with "{description}"
parse_assoc_record(cmd) ==
  IF cmd # <<>> /\ Head(cmd) = "{" /\ "}" \in Range(cmd)
  THEN [command |-> SubSeq(cmd, 1 + CHOOSE i \in 1..Len(cmd) :
                                      cmd[i] = "}" /\ \A j \in 1..(i - 1) : cmd[j] # "}",
                           Len(cmd)),
        description |-> SubSeq(cmd, 2, (CHOOSE i \in 1..Len(cmd) :
                                          cmd[i] = "}" /\ \A j \in 1..(i - 1) : cmd[j] # "}")
                                       - 1),
        type |-> "user"]
  ELSE [command |-> cmd, description |-> <<>>, type |-> "user"]

\* ft_set_programs() and ft_set_viewers(): the matchers get the commands of
\* the list as their records
ft_set_programs(assocs, matchers, cmd) ==
  Append(assocs,
         [matchers |-> matchers,
          records |-> [i \in 1..Len(split_commands(cmd, <<>>)) |->
                         parse_assoc_record(
                           replace_double_comma(split_commands(cmd, <<>>)[i]))]])

RECURSIVE load_assocs_from(_, _)
load_assocs_from(assocs, entries) ==
  IF entries = <<>> THEN assocs
  ELSE load_assocs_from(
         IF get_str(Head(entries), "matchers") /\ get_str(Head(entries), "cmd")
         THEN ft_set_programs(assocs, Head(entries).matchers, Head(entries).cmd)
         ELSE assocs,
         Tail(entries))

\* load_assocs() and load_viewers(): list is the association list that the
\* node is loaded into
load_assocs(root, node, list, m) ==
  [m EXCEPT ![list] = load_assocs_from(@, json_object_get_array(root, node))]

\* setup_user_mark() and bmarks_setup(): the entry replaces the one the list
\* has under the key, or is added
set_keyed(list, key, name, entry) ==
  IF \E i \in 1..Len(list) : list[i][key] = name
  THEN [i \in 1..Len(list) |-> IF list[i][key] = name THEN entry ELSE list[i]]
  ELSE Append(list, entry)

RECURSIVE load_marks_from(_, _, _)
load_marks_from(marks, entries, uninit) ==
  IF entries = <<>> THEN marks
  ELSE LET name == Head(entries).name
           mark == Head(entries).value
       IN load_marks_from(
            IF get_str(mark, "dir") /\ get_str(mark, "file") /\ get_double(mark, "ts")
            THEN set_keyed(marks, "name", name,
                           [name |-> name, directory |-> mark.dir, file |-> mark.file,
                            timestamp |-> value_after_get(mark, "ts", uninit)])
            ELSE marks,
            Tail(entries), uninit)

load_marks(root, m) ==
  [m EXCEPT !.marks = load_marks_from(@, json_object_get_object(root, "marks"), m.uninit)]

RECURSIVE load_bmarks_from(_, _)
load_bmarks_from(bmarks, entries) ==
  IF entries = <<>> THEN bmarks
  ELSE LET path == Head(entries).name
           bmark == Head(entries).value
       IN load_bmarks_from(
            IF get_str(bmark, "tags") /\ get_double(bmark, "ts")
            THEN set_keyed(bmarks, "path", path,
                           [path |-> path, tags |-> bmark.tags, timestamp |-> bmark.ts])
            ELSE bmarks,
            Tail(entries))

load_bmarks(root, m) ==
  [m EXCEPT !.bmarks = load_bmarks_from(@, json_object_get_object(root, "bmarks"))]

\* dir_stack_push(): the entry is put on top and the stack counts as changed
RECURSIVE load_dir_stack_from(_, _)
load_dir_stack_from(m, entries) ==
  IF entries = <<>> THEN m
  ELSE LET entry == Head(entries)
       IN load_dir_stack_from(
            IF get_str(entry, "left-dir") /\ get_str(entry, "left-file")
               /\ get_str(entry, "right-dir") /\ get_str(entry, "right-file")
            THEN [m EXCEPT !.dir_stack =
                     Append(@, [lpane_dir |-> entry["left-dir"],
                                lpane_file |-> entry["left-file"],
                                rpane_dir |-> entry["right-dir"],
                                rpane_file |-> entry["right-file"]]),
                           !.dir_stack_changed = TRUE]
            ELSE m,
            Tail(entries))

load_dir_stack(root, m) == load_dir_stack_from(m, json_object_get_array(root, "dir-stack"))

\* the steps of load_state in their order
LoadSteps ==
  <<"use-term-multiplexer", "color-scheme", "gtabs", "options", "assocs", "xassocs",
    "viewers", "cmds", "marks", "bmarks", "regs", "dir-stack", "trash", "cmd-hist",
    "search-hist", "prompt-hist", "lfilt-hist">>

load_step(root, step, reread, m) ==
  CASE step = "use-term-multiplexer" ->
         IF get_bool(root, step) THEN [m EXCEPT !.use_term_multiplexer = root[step]] ELSE m
    [] step = "color-scheme" ->
         IF get_str(root, step) THEN [m EXCEPT !.cs_name = root[step]] ELSE m
    [] step = "gtabs" -> load_gtabs(json_object_get_array(root, "gtabs"), reread, m)
    [] step = "options" -> load_options(root, m)
    [] step = "assocs" -> load_assocs(root, "assocs", "filetypes", m)
    [] step = "xassocs" -> load_assocs(root, "xassocs", "xfiletypes", m)
    [] step = "viewers" -> load_assocs(root, "viewers", "fileviewers", m)
    [] step = "cmds" -> load_cmds(root, m)
    [] step = "marks" -> load_marks(root, m)
    [] step = "bmarks" -> load_bmarks(root, m)
    [] step = "regs" -> load_regs(root, m)
    [] step = "dir-stack" -> load_dir_stack(root, m)
    [] step = "trash" -> load_trash(root, m)
    [] step \in HistNodes -> load_history(root, step, m)

RECURSIVE load_steps(_, _, _, _)
load_steps(root, steps, reread, m) ==
  IF steps = <<>> THEN m
  ELSE CHOOSE loaded \in
         {load_steps(root, Tail(steps), reread, n) :
            n \in {load_step(root, Head(steps), reread, m)}} : TRUE

load_state(root, reread, m) == load_steps(root, LoadSteps, reread, m)

(***************************************************************************)
(* Files and modification fingerprints.  Path 0 is                         *)
(* "<config-dir>/vifminfo.json"; path pid (pid > 0) is the temporary file  *)
(* "<config-dir>/vifminfo.json_<pid>".  A fingerprint (filemon_t) is a     *)
(* number that every completed write of a file draws afresh; 0 is the      *)
(* fingerprint of no file (an unset monitor).                              *)
(***************************************************************************)
Inst == {1, 2}

info_file == 0

\* variant: the state is written over vifminfo.json itself
tmp_file_in_place(pid) == info_file

\* variant: every instance uses the temporary file of process 1
tmp_file_shared(pid) == 1

tmp_file(pid) == pid

\* <config-dir>/vifminfo, the file in the legacy format
legacy_info_file == 3

Paths == {info_file, legacy_info_file} \cup {tmp_file(i) : i \in Inst}

NoFile == [exists |-> FALSE, complete |-> FALSE, doc |-> EmptyDoc, mon |-> 0]

PartialFile == [exists |-> TRUE, complete |-> FALSE, doc |-> EmptyDoc, mon |-> 0]

CompleteFile(doc, mon) == [exists |-> TRUE, complete |-> TRUE, doc |-> doc, mon |-> mon]

\* the monitor read from a file; 0 when the file cannot be examined
filemon_from_file(file) == IF file.exists THEN file.mon ELSE 0

\* an unset monitor equals nothing
filemon_equal(a, b) == a # 0 /\ a = b

\* NULL (EmptyDoc) when the file is missing or is not a complete document
json_parse_file(file) == IF file.exists /\ file.complete THEN file.doc ELSE EmptyDoc

json_parse_ok(file) == file.exists /\ file.complete

(***************************************************************************)
(* The legacy format.  A file is a sequence of lines and a line is a       *)
(* sequence of characters; a stretch of characters that the reader only    *)
(* copies may stand in a line as one string.  The first character of a     *)
(* line is its tag.                                                        *)
(***************************************************************************)
\* LINE_TYPE_*: the tag characters of the lines
LINE_TYPE ==
  [COMMENT |-> "#", OPTION |-> "=", FILETYPE |-> ".", XFILETYPE |-> "x",
   FILEVIEWER |-> ",", COMMAND |-> "!", MARK |-> "'", BOOKMARK |-> "b",
   ACTIVE_VIEW |-> "a", QUICK_VIEW_STATE |-> "q", WIN_COUNT |-> "v",
   SPLIT_ORIENTATION |-> "o", SPLIT_POSITION |-> "m", LWIN_SORT |-> "l",
   RWIN_SORT |-> "r", LWIN_HIST |-> "d", RWIN_HIST |-> "D",
   CMDLINE_HIST |-> ":", SEARCH_HIST |-> "/", PROMPT_HIST |-> "p",
   FILTER_HIST |-> "|", DIR_STACK |-> "S", TRASH |-> "t", REG |-> "\"",
   LWIN_FILT |-> "f", RWIN_FILT |-> "F", LWIN_FILT_INV |-> "i",
   RWIN_FILT_INV |-> "I", USE_SCREEN |-> "s", COLORSCHEME |-> "c",
   LWIN_SPECIFIC |-> "[", RWIN_SPECIFIC |-> "]"]

\* PROP_TYPE_*: the tag characters of the properties of a pane
PROP_TYPE ==
  [DOTFILES |-> ".", AUTO_FILTER |-> "F"]

\* the suffix of the commands of old builtin associations
VIFM_PSEUDO_CMD == "vifm"

valid_registers == {"\"", "_", "a", "b", "c"}

\* what time(NULL) returns while the file is read
time_now == 999

\* relative names that exist in the writable trash directory, and that
\* directory
FilesInTrashDir == {"old"}

TrashDir == "/trash"

LegacyFile(lines) == [exists |-> TRUE, complete |-> FALSE, doc |-> lines, mon |-> 0]

\* the characters as one string
RECURSIVE Text(_)
Text(str) ==
  IF str = <<>> THEN ""
  ELSE IF Len(str) = 1 THEN str[1]
  ELSE Head(str) \o Text(Tail(str))

\* str[0], the terminator for an empty string
FirstChar(str) == IF str = <<>> THEN "" ELSE Head(str)

\* str + 1
AfterFirst(str) == IF str = <<>> THEN <<>> ELSE Tail(str)

atoi(str) == strtol(str).value

ends_with(str, suffix) ==
  /\ Len(str) >= Len(suffix)
  /\ SubSeq(str, Len(str) - Len(suffix) + 1, Len(str)) = suffix

\* the next line of the stream without its leading blanks, and the stream
\* after it; no line at the end of the stream
read_vifminfo_line(fp) ==
  IF fp = <<>> THEN [ok |-> FALSE, line |-> <<>>, fp |-> <<>>]
  ELSE [ok |-> TRUE, line |-> skip_char(Head(fp), " "), fp |-> Tail(fp)]

\* -1 and the stream as it was unless the stream goes on with a digit or a
\* sign and fscanf("%30d\n") reads a number there; the number otherwise,
\* and the stream after the number and the blanks and line end behind it
read_optional_number(fp) ==
  IF fp = <<>> \/ Head(fp) = <<>> THEN [num |-> -1, fp |-> fp]
  ELSE IF ~IsDigit(Head(Head(fp))) /\ Head(Head(fp)) \notin {"-", "+"}
  THEN [num |-> -1, fp |-> fp]
  ELSE LET r == strtol(Head(fp))
       IN IF r.endptr = Head(fp) THEN [num |-> -1, fp |-> fp]
          ELSE IF skip_char(r.endptr, " ") = <<>>
          THEN [num |-> r.value, fp |-> Tail(fp)]
          ELSE [num |-> r.value, fp |-> <<skip_char(r.endptr, " ")>> \o Tail(fp)]

\* the value of the line when all of it is a number
read_number(line) ==
  [ok |-> line # <<>> /\ strtol(line).endptr = <<>>, value |-> strtol(line).value]

convert_old_trash_path(trash_path) ==
  IF trash_path \in FilesInTrashDir THEN TrashDir \o "/" \o trash_path ELSE trash_path

\* an option of the legacy file as a token of the "options" array: the name
\* before "=" and the value after it, a number for 'history'
OptionToken(str) ==
  IF Len(str) >= 3 /\ str[2] = "="
  THEN [name |-> str[1],
        value |-> IF str[1] = "history" THEN atoi(SubSeq(str, 3, Len(str)))
                  ELSE Text(SubSeq(str, 3, Len(str)))]
  ELSE [name |-> Text(str), value |-> ""]

\* the document before the first line is read: every section is there and
\* is empty
legacy_root ==
  LET tab == [history |-> <<>>, filters |-> EmptyDoc, options |-> <<>>]
  IN ("cmd-hist" :> <<>>) @@ ("search-hist" :> <<>>) @@ ("prompt-hist" :> <<>>)
     @@ ("lfilt-hist" :> <<>>) @@ ("dir-stack" :> <<>>)
     @@ [options |-> <<>>, assocs |-> <<>>, xassocs |-> <<>>, viewers |-> <<>>,
         cmds |-> <<>>, marks |-> <<>>, bmarks |-> <<>>, trash |-> <<>>, regs |-> <<>>,
         gtabs |-> <<[splitter |-> EmptyDoc,
                      panes |-> <<[ptabs |-> <<tab>>], [ptabs |-> <<tab>>]>>]>>]

\* set_*(gtab, key, value), set_*(splitter, key, value), set_*(left_tab or
\* right_tab, key, value) and set_*(left_filters or right_filters, key, value)
set_in_gtab(root, key, value) ==
  [root EXCEPT !["gtabs"][1] = json_object_set(@, key, value)]

set_in_splitter(root, key, value) ==
  [root EXCEPT !["gtabs"][1]["splitter"] = json_object_set(@, key, value)]

set_in_tab(root, p, key, value) ==
  [root EXCEPT !["gtabs"][1]["panes"][p]["ptabs"][1] = json_object_set(@, key, value)]

set_in_filters(root, p, key, value) ==
  [root EXCEPT !["gtabs"][1]["panes"][p]["ptabs"][1]["filters"] =
                  json_object_set(@, key, value)]

append_in_tab(root, p, key, value) ==
  [root EXCEPT !["gtabs"][1]["panes"][p]["ptabs"][1][key] = Append(@, value)]

\* LINE_TYPE_LWIN_SPECIFIC and LINE_TYPE_RWIN_SPECIFIC: info is the tab of
\* the pane
legacy_pane_specific(root, p, line_val) ==
  IF FirstChar(line_val) = PROP_TYPE.DOTFILES
  THEN set_in_tab(root, p, "dot", atoi(AfterFirst(line_val)) # 0)
  ELSE IF FirstChar(line_val) = PROP_TYPE.AUTO_FILTER
  THEN set_in_tab(root, p, "auto", Text(AfterFirst(line_val)))
  ELSE root

\* variant: every mark is stamped with the current time
legacy_mark_stamped_now(root, line_val, fp) ==
  LET l2 == read_vifminfo_line(fp)
      l3 == read_vifminfo_line(l2.fp)
      n == read_optional_number(l3.fp)
  IN IF ~l2.ok \/ ~l3.ok THEN [root |-> root, fp |-> l3.fp]
     ELSE [root |-> [root EXCEPT !["marks"] =
                       json_object_set_value(@, FirstChar(line_val),
                         [dir |-> Text(l2.line), file |-> Text(l3.line),
                          ts |-> time_now])],
           fp |-> n.fp]

\* variant: a mark is added although its file line is missing
legacy_mark_without_file(root, line_val, fp) ==
  LET l2 == read_vifminfo_line(fp)
      l3 == read_vifminfo_line(l2.fp)
      n == read_optional_number(l3.fp)
  IN IF ~l2.ok THEN [root |-> root, fp |-> l3.fp]
     ELSE [root |-> [root EXCEPT !["marks"] =
                       json_object_set_value(@, FirstChar(line_val),
                         [dir |-> Text(l2.line), file |-> Text(l3.line),
                          ts |-> IF n.num = -1 THEN time_now ELSE n.num])],
           fp |-> n.fp]

\* LINE_TYPE_MARK: the directory, the file and an optional timestamp
legacy_mark(root, line_val, fp) ==
  LET l2 == read_vifminfo_line(fp)
      l3 == read_vifminfo_line(l2.fp)
      n == read_optional_number(l3.fp)
  IN IF ~l2.ok \/ ~l3.ok THEN [root |-> root, fp |-> l3.fp]
     ELSE [root |-> [root EXCEPT !["marks"] =
                       json_object_set_value(@, FirstChar(line_val),
                         [dir |-> Text(l2.line), file |-> Text(l3.line),
                          ts |-> IF n.num = -1 THEN time_now ELSE n.num])],
           fp |-> n.fp]

\* the three kinds of associations
legacy_assoc(root, array, type, line_val, fp) ==
  LET l2 == read_vifminfo_line(fp)
  IN IF ~l2.ok THEN [root |-> root, fp |-> l2.fp]
     ELSE IF type # LINE_TYPE.FILEVIEWER /\ ends_with(l2.line, <<"}", VIFM_PSEUDO_CMD>>)
     THEN [root |-> root, fp |-> l2.fp]
     ELSE [root |-> [root EXCEPT ![array] =
                       Append(@, [matchers |-> Text(line_val), cmd |-> l2.line])],
           fp |-> l2.fp]

legacy_command(root, line_val, fp) ==
  LET l2 == read_vifminfo_line(fp)
  IN IF ~l2.ok THEN [root |-> root, fp |-> l2.fp]
     ELSE [root |-> [root EXCEPT !["cmds"] =
                       json_object_set_value(@, Text(line_val), Text(l2.line))],
           fp |-> l2.fp]

legacy_bookmark(root, line_val, fp) ==
  LET l2 == read_vifminfo_line(fp)
      l3 == read_vifminfo_line(l2.fp)
  IN IF l2.ok /\ l3.ok /\ read_number(l3.line).ok
     THEN [root |-> [root EXCEPT !["bmarks"] =
                       json_object_set_value(@, Text(line_val),
                         [tags |-> Text(l2.line), ts |-> read_number(l3.line).value])],
           fp |-> l3.fp]
     ELSE [root |-> root, fp |-> l3.fp]

\* LINE_TYPE_LWIN_HIST and LINE_TYPE_RWIN_HIST
legacy_pane_hist(root, p, line_val, fp) ==
  LET l2 == read_vifminfo_line(fp)
      n == read_optional_number(l2.fp)
  IN IF line_val = <<>>
     THEN [root |-> set_in_tab(root, p, "restore-last-location", TRUE), fp |-> fp]
     ELSE IF ~l2.ok THEN [root |-> root, fp |-> l2.fp]
     ELSE [root |-> append_in_tab(root, p, "history",
                      [dir |-> Text(line_val), file |-> Text(l2.line), relpos |-> n.num]),
           fp |-> n.fp]

legacy_dir_stack(root, line_val, fp) ==
  LET l2 == read_vifminfo_line(fp)
      l3 == read_vifminfo_line(l2.fp)
      l4 == read_vifminfo_line(l3.fp)
  IN IF l2.ok /\ l3.ok /\ l4.ok
     THEN [root |-> [root EXCEPT !["dir-stack"] =
                       Append(@, ("left-dir" :> Text(line_val))
                                 @@ ("left-file" :> Text(l2.line))
                                 @@ ("right-dir" :> Text(AfterFirst(l3.line)))
                                 @@ ("right-file" :> Text(l4.line)))],
           fp |-> l4.fp]
     ELSE [root |-> root, fp |-> l4.fp]

legacy_trash(root, line_val, fp) ==
  LET l2 == read_vifminfo_line(fp)
  IN IF ~l2.ok THEN [root |-> root, fp |-> l2.fp]
     ELSE [root |-> [root EXCEPT !["trash"] =
                       Append(@, [trashed |-> convert_old_trash_path(Text(line_val)),
                                  original |-> Text(l2.line)])],
           fp |-> l2.fp]

legacy_reg(root, line_val) ==
  IF FirstChar(line_val) \notin valid_registers THEN root
  ELSE [root EXCEPT !["regs"] =
          json_object_set_value(@, FirstChar(line_val),
            Append(IF json_object_has_value(@, FirstChar(line_val))
                   THEN json_object_get_value(@, FirstChar(line_val)) ELSE <<>>,
                   Text(AfterFirst(line_val))))]

legacy_option(root, line_val) ==
  IF FirstChar(line_val) = "["
  THEN append_in_tab(root, 1, "options", Text(AfterFirst(line_val)))
  ELSE IF FirstChar(line_val) = "]"
  THEN append_in_tab(root, 2, "options", Text(AfterFirst(line_val)))
  ELSE [root EXCEPT !["options"] = Append(@, OptionToken(line_val))]

\* the records that take one line
legacy_single(root, type, line_val) ==
  IF type = LINE_TYPE.OPTION THEN legacy_option(root, line_val)
  ELSE IF type = LINE_TYPE.ACTIVE_VIEW
  THEN set_in_gtab(root, "active-pane", IF FirstChar(line_val) = "l" THEN 0 ELSE 1)
  ELSE IF type = LINE_TYPE.QUICK_VIEW_STATE
  THEN set_in_gtab(root, "preview", atoi(line_val) # 0)
  ELSE IF type = LINE_TYPE.WIN_COUNT
  THEN set_in_splitter(root, "expanded", atoi(line_val) = 1)
  ELSE IF type = LINE_TYPE.SPLIT_ORIENTATION
  THEN set_in_splitter(root, "orientation", IF FirstChar(line_val) = "v" THEN "v" ELSE "h")
  ELSE IF type = LINE_TYPE.SPLIT_POSITION
  THEN set_in_splitter(root, "pos", atoi(line_val))
  ELSE IF type = LINE_TYPE.LWIN_SORT THEN set_in_tab(root, 1, "sorting", line_val)
  ELSE IF type = LINE_TYPE.RWIN_SORT THEN set_in_tab(root, 2, "sorting", line_val)
  ELSE IF type = LINE_TYPE.CMDLINE_HIST
  THEN [root EXCEPT !["cmd-hist"] = Append(@, Text(line_val))]
  ELSE IF type = LINE_TYPE.SEARCH_HIST
  THEN [root EXCEPT !["search-hist"] = Append(@, Text(line_val))]
  ELSE IF type = LINE_TYPE.PROMPT_HIST
  THEN [root EXCEPT !["prompt-hist"] = Append(@, Text(line_val))]
  ELSE IF type = LINE_TYPE.FILTER_HIST
  THEN [root EXCEPT !["lfilt-hist"] = Append(@, Text(line_val))]
  ELSE IF type = LINE_TYPE.REG THEN legacy_reg(root, line_val)
  ELSE IF type = LINE_TYPE.LWIN_FILT THEN set_in_filters(root, 1, "manual", Text(line_val))
  ELSE IF type = LINE_TYPE.RWIN_FILT THEN set_in_filters(root, 2, "manual", Text(line_val))
  ELSE IF type = LINE_TYPE.LWIN_FILT_INV
  THEN set_in_filters(root, 1, "invert", atoi(line_val) # 0)
  ELSE IF type = LINE_TYPE.RWIN_FILT_INV
  THEN set_in_filters(root, 2, "invert", atoi(line_val) # 0)
  ELSE IF type = LINE_TYPE.USE_SCREEN
  THEN json_object_set(root, "use-term-multiplexer", atoi(line_val) # 0)
  ELSE IF type = LINE_TYPE.COLORSCHEME
  THEN json_object_set(root, "color-scheme", Text(line_val))
  ELSE IF type = LINE_TYPE.LWIN_SPECIFIC THEN legacy_pane_specific(root, 1, line_val)
  ELSE IF type = LINE_TYPE.RWIN_SPECIFIC THEN legacy_pane_specific(root, 2, line_val)
  ELSE root

\* one pass of the loop of read_legacy_info_file for a line that is neither
\* empty nor a comment: the document and the stream after the record
legacy_record(root, type, line_val, fp) ==
  IF type = LINE_TYPE.FILETYPE THEN legacy_assoc(root, "assocs", type, line_val, fp)
  ELSE IF type = LINE_TYPE.XFILETYPE THEN legacy_assoc(root, "xassocs", type, line_val, fp)
  ELSE IF type = LINE_TYPE.FILEVIEWER THEN legacy_assoc(root, "viewers", type, line_val, fp)
  ELSE IF type = LINE_TYPE.COMMAND THEN legacy_command(root, line_val, fp)
  ELSE IF type = LINE_TYPE.MARK THEN legacy_mark(root, line_val, fp)
  ELSE IF type = LINE_TYPE.BOOKMARK THEN legacy_bookmark(root, line_val, fp)
  ELSE IF type = LINE_TYPE.LWIN_HIST THEN legacy_pane_hist(root, 1, line_val, fp)
  ELSE IF type = LINE_TYPE.RWIN_HIST THEN legacy_pane_hist(root, 2, line_val, fp)
  ELSE IF type = LINE_TYPE.DIR_STACK THEN legacy_dir_stack(root, line_val, fp)
  ELSE IF type = LINE_TYPE.TRASH THEN legacy_trash(root, line_val, fp)
  ELSE [root |-> legacy_single(root, type, line_val), fp |-> fp]

RECURSIVE legacy_lines(_, _)
legacy_lines(root, fp) ==
  LET l == read_vifminfo_line(fp)
      type == FirstChar(l.line)
  IN IF ~l.ok THEN root
     ELSE IF type = LINE_TYPE.COMMENT \/ type = "" THEN legacy_lines(root, l.fp)
     ELSE LET r == legacy_record(root, type, AfterFirst(l.line), l.fp)
          IN legacy_lines(r.root, r.fp)

\* NULL when the file cannot be opened
read_legacy_info_file(file) ==
  IF file.exists THEN legacy_lines(legacy_root, file.doc) ELSE EmptyDoc

\* variant: the legacy file is read whenever it can be opened
read_info_state_legacy_first(files) ==
  IF files[legacy_info_file].exists THEN read_legacy_info_file(files[legacy_info_file])
  ELSE json_parse_file(files[info_file])

\* whether read_info_file gets a document from one of the two files
read_info_found(files) ==
  json_parse_ok(files[info_file]) \/ files[legacy_info_file].exists

\* the document read_info_file loads; NULL when there is none
read_info_state(files) ==
  IF json_parse_ok(files[info_file]) THEN json_parse_file(files[info_file])
  ELSE read_legacy_info_file(files[legacy_info_file])

VARIABLES
  fs,               \* contents of every path
  clock,            \* next fresh fingerprint
  pc,               \* position of each instance in read_info_file/write_info_file
  live,             \* live application model of each instance
  vifminfo_mon,     \* the static monitor of each instance (its baseline)
  vifminfo_changed, \* the local of write_info_file
  current,          \* the document update_info_file holds in memory
  nsaves,           \* save cycles started by each instance
  edited,           \* whether the user of the instance made its changes
  snap,             \* history: fingerprint of the version the snapshot copied
  seen,             \* history: fingerprint read by the last comparison
  captured,         \* history: the document serialize_state returned
  did_merge,        \* history: whether update_info_file ran merge_states
  rename_status,    \* history: outcome of rename_file in the current cycle
  base,             \* history: the baseline when the current cycle began
  installer,        \* history: the instance whose rename installed vifminfo.json
  installed         \* history: whether the last rename of the instance succeeded

vars == <<fs, clock, pc, live, vifminfo_mon, vifminfo_changed, current, nsaves,
          edited, snap, seen, captured, did_merge, rename_status, base,
          installer, installed>>

(***************************************************************************)
(* write_info_file and update_info_file.                                   *)
(***************************************************************************)
\* variant: the comparison of the monitors is not negated
vifminfo_has_changed_when_equal(file, baseline) ==
  filemon_from_file(file) = 0 \/ filemon_equal(baseline, filemon_from_file(file))

\* variant: every save finds the file changed
vifminfo_has_changed_always(file, baseline) == TRUE

\* the value of vifminfo_changed
vifminfo_has_changed(file, baseline) ==
  filemon_from_file(file) = 0 \/ ~filemon_equal(baseline, filemon_from_file(file))

\* the document written to filename
update_info_file(admixture, merge, m) ==
  IF merge THEN merge_states(serialize_state(m), admixture, model_after_capture(m))
  ELSE serialize_state(m)

\* variant: the cycle goes on after a failed copy
write_copy_ignoring_failure(i) ==
  /\ pc[i] = "idle"
  /\ nsaves[1] + nsaves[2] < MaxSaves
  /\ nsaves' = [nsaves EXCEPT ![i] = @ + 1]
  /\ \/ /\ ~fs[info_file].exists
        /\ pc' = [pc EXCEPT ![i] = "copied"]
        /\ fs' = fs
     \/ /\ fs[info_file].exists
        /\ pc' = [pc EXCEPT ![i] = "copied"]
        /\ fs' = [fs EXCEPT ![tmp_file(i)] = [fs[info_file] EXCEPT !.mon = 0]]
     \/ /\ fs[info_file].exists
        /\ pc' = [pc EXCEPT ![i] = "copied"]
        /\ \E left \in {fs[tmp_file(i)], PartialFile} :
              fs' = [fs EXCEPT ![tmp_file(i)] = left]
  /\ snap' = [snap EXCEPT ![i] = filemon_from_file(fs[info_file])]
  /\ rename_status' = [rename_status EXCEPT ![i] = "none"]
  /\ base' = [base EXCEPT ![i] = vifminfo_mon[i]]
  /\ UNCHANGED <<installer, installed>>
  /\ UNCHANGED <<clock, live, vifminfo_mon, vifminfo_changed, current, edited,
                 seen, captured, did_merge>>

\* os_access() and copy_file(): the snapshot of vifminfo.json is taken when the
\* file is readable; a failed copy abandons the cycle and may leave a partial
\* temporary file behind
write_copy(i) ==
  /\ pc[i] = "idle"
  /\ nsaves[1] + nsaves[2] < MaxSaves
  /\ nsaves' = [nsaves EXCEPT ![i] = @ + 1]
  /\ \/ /\ ~fs[info_file].exists
        /\ pc' = [pc EXCEPT ![i] = "copied"]
        /\ fs' = fs
     \/ /\ fs[info_file].exists
        /\ pc' = [pc EXCEPT ![i] = "copied"]
        /\ fs' = [fs EXCEPT ![tmp_file(i)] = [fs[info_file] EXCEPT !.mon = 0]]
     \/ /\ fs[info_file].exists
        /\ pc' = [pc EXCEPT ![i] = "idle"]
        /\ \E left \in {fs[tmp_file(i)], PartialFile} :
              fs' = [fs EXCEPT ![tmp_file(i)] = left]
  /\ snap' = [snap EXCEPT ![i] = filemon_from_file(fs[info_file])]
  /\ rename_status' = [rename_status EXCEPT ![i] = "none"]
  /\ base' = [base EXCEPT ![i] = vifminfo_mon[i]]
  /\ UNCHANGED <<installer, installed>>
  /\ UNCHANGED <<clock, live, vifminfo_mon, vifminfo_changed, current, edited,
                 seen, captured, did_merge>>

write_compare(i) ==
  /\ pc[i] = "copied"
  /\ vifminfo_changed' =
       [vifminfo_changed EXCEPT ![i] = vifminfo_has_changed(fs[info_file], vifminfo_mon[i])]
  /\ seen' = [seen EXCEPT ![i] = filemon_from_file(fs[info_file])]
  /\ pc' = [pc EXCEPT ![i] = "compared"]
  /\ UNCHANGED <<fs, clock, live, vifminfo_mon, current, nsaves, edited, captured,
                 did_merge, rename_status, snap, base, installer, installed>>

\* update_info_file up to the point where the output file is open: the state
\* is captured, merged when asked for, and the file is being written
update_begin(i) ==
  /\ pc[i] = "compared"
  /\ current' = [current EXCEPT ![i] =
                    update_info_file(json_parse_file(fs[tmp_file(i)]), vifminfo_changed[i],
                                     live[i])]
  /\ did_merge' = [did_merge EXCEPT ![i] = vifminfo_changed[i]]
  /\ captured' = [captured EXCEPT ![i] = serialize_state(live[i])]
  /\ live' = [live EXCEPT ![i] = model_after_capture(@)]
  /\ fs' = [fs EXCEPT ![tmp_file(i)] = PartialFile]
  /\ pc' = [pc EXCEPT ![i] = "writing"]
  /\ UNCHANGED <<clock, vifminfo_mon, vifminfo_changed, nsaves, edited, seen,
                 rename_status, snap, base, installer, installed>>

\* json_serialize_to_file() completes
update_end(i) ==
  /\ pc[i] = "writing"
  /\ fs' = [fs EXCEPT ![tmp_file(i)] = CompleteFile(current[i], clock)]
  /\ clock' = clock + 1
  /\ pc' = [pc EXCEPT ![i] = "written"]
  /\ UNCHANGED <<live, vifminfo_mon, vifminfo_changed, current, nsaves, edited,
                 seen, captured, did_merge, rename_status, snap, base, installer, installed>>

\* variant: the monitor is taken from vifminfo.json
write_monitor_of_info_file(i) ==
  /\ pc[i] = "written"
  /\ vifminfo_mon' = [vifminfo_mon EXCEPT ![i] = filemon_from_file(fs[info_file])]
  /\ pc' = [pc EXCEPT ![i] = "monitored"]
  /\ UNCHANGED <<fs, clock, live, vifminfo_changed, current, nsaves, edited, seen,
                 captured, did_merge, rename_status, snap, base, installer, installed>>

\* the monitor is taken from the temporary file, before the rename
write_monitor(i) ==
  /\ pc[i] = "written"
  /\ vifminfo_mon' = [vifminfo_mon EXCEPT ![i] = filemon_from_file(fs[tmp_file(i)])]
  /\ pc' = [pc EXCEPT ![i] = "monitored"]
  /\ UNCHANGED <<fs, clock, live, vifminfo_changed, current, nsaves, edited, seen,
                 captured, did_merge, rename_status, snap, base, installer, installed>>

\* variant: the error branch does not remove the temporary file
rename_result_without_remove(files, i, ok) ==
  IF ok
  THEN [files EXCEPT ![info_file] = files[tmp_file(i)], ![tmp_file(i)] = NoFile]
  ELSE files

\* the file system after rename_file(tmp_file, info_file) and the error branch
rename_result(files, i, ok) ==
  IF ok
  THEN [files EXCEPT ![info_file] = files[tmp_file(i)], ![tmp_file(i)] = NoFile]
  ELSE [files EXCEPT ![tmp_file(i)] = NoFile]

write_rename(i) ==
  /\ pc[i] = "monitored"
  /\ \E ok \in BOOLEAN :
        /\ fs' = rename_result(fs, i, ok)
        /\ rename_status' = [rename_status EXCEPT ![i] = IF ok THEN "ok" ELSE "failed"]
        /\ installer' = IF ok THEN i ELSE installer
        /\ installed' = [installed EXCEPT ![i] = ok]
  /\ pc' = [pc EXCEPT ![i] = "idle"]
  /\ UNCHANGED <<clock, live, vifminfo_mon, vifminfo_changed, current, nsaves,
                 edited, seen, captured, did_merge, snap, base>>

\* the process dies in the middle of a save cycle
crash(i) ==
  /\ pc[i] \in {"copied", "compared", "writing", "written", "monitored"}
  /\ pc' = [pc EXCEPT ![i] = "crashed"]
  /\ UNCHANGED <<fs, clock, live, vifminfo_mon, vifminfo_changed, current, nsaves,
                 edited, seen, captured, did_merge, rename_status, snap, base, installer, installed>>

(***************************************************************************)
(* read_info_file at startup, in two steps: parse and load, then record    *)
(* the monitor.                                                            *)
(***************************************************************************)
read_parse(i) ==
  /\ pc[i] = "off"
  /\ IF read_info_found(fs)
     THEN /\ live' = [live EXCEPT ![i] = load_state(read_info_state(fs), FALSE, @)]
          /\ pc' = [pc EXCEPT ![i] = "loaded"]
     ELSE /\ live' = live
          /\ pc' = [pc EXCEPT ![i] = "idle"]
  /\ UNCHANGED <<fs, clock, vifminfo_mon, vifminfo_changed, current, nsaves, edited,
                 seen, captured, did_merge, rename_status, snap, base, installer, installed>>

\* read_info_file(1) of a session that is already running (:restart): the
\* same steps with reread set
reread_parse(i) ==
  /\ pc[i] = "restarting"
  /\ IF read_info_found(fs)
     THEN /\ live' = [live EXCEPT ![i] = load_state(read_info_state(fs), TRUE, @)]
          /\ pc' = [pc EXCEPT ![i] = "reloaded"]
     ELSE /\ live' = live
          /\ pc' = [pc EXCEPT ![i] = "idle"]
  /\ UNCHANGED <<fs, clock, vifminfo_mon, vifminfo_changed, current, nsaves, edited,
                 seen, captured, did_merge, rename_status, snap, base, installer, installed>>

read_monitor(i) ==
  /\ pc[i] \in {"loaded", "reloaded"}
  /\ vifminfo_mon' = [vifminfo_mon EXCEPT ![i] = filemon_from_file(fs[info_file])]
  /\ live' = [live EXCEPT ![i].dir_stack_changed = FALSE]
  /\ pc' = [pc EXCEPT ![i] = "idle"]
  /\ UNCHANGED <<fs, clock, vifminfo_changed, current, nsaves, edited, seen,
                 captured, did_merge, rename_status, snap, base, installer, installed>>

(***************************************************************************)
(* The user of instance i defines a command, runs a command line and       *)
(* yanks a file: entries no other instance has.                            *)
(***************************************************************************)
OwnCmd(i) == IF i = 1 THEN "c1" ELSE "c2"

OwnItem(i) == IF i = 1 THEN "h1" ELSE "h2"

OwnReg(i) == IF i = 1 THEN "a" ELSE "b"

user_edit(i) ==
  /\ pc[i] = "idle"
  /\ ~edited[i]
  /\ edited' = [edited EXCEPT ![i] = TRUE]
  /\ live' = [live EXCEPT
        ![i].cmds = add_user_cmd(@, OwnCmd(i), "echo"),
        ![i].cmd_hist = hist_add(@, OwnItem(i), live[i].history_len),
        ![i].regs = regs_append(@, OwnReg(i), "/file")]
  /\ UNCHANGED <<fs, clock, pc, vifminfo_mon, vifminfo_changed, current, nsaves,
                 seen, captured, did_merge, rename_status, snap, base, installer, installed>>

(***************************************************************************)
(* Two instances sharing one configuration directory.                      *)
(***************************************************************************)
SpecFlags == {"commands", "chistory", "registers"}

SpecModel == [DefaultModel EXCEPT !.vifm_info = SpecFlags]

\* the file a previous session left behind
OldModel ==
  [SpecModel EXCEPT !.cmds = <<[name |-> "c0", body |-> "echo"]>>,
                    !.cmd_hist = HistOf(<<"h0">>)]

Init ==
  /\ fs \in {[p \in Paths |-> NoFile],
             [p \in Paths |-> IF p = info_file
                              THEN CompleteFile(serialize_state(OldModel), 1)
                              ELSE NoFile]}
  /\ clock = 2
  /\ pc = [i \in Inst |-> "off"]
  /\ live = [i \in Inst |-> SpecModel]
  /\ vifminfo_mon = [i \in Inst |-> 0]
  /\ vifminfo_changed = [i \in Inst |-> FALSE]
  /\ current = [i \in Inst |-> EmptyDoc]
  /\ nsaves = [i \in Inst |-> 0]
  /\ edited = [i \in Inst |-> FALSE]
  /\ snap = [i \in Inst |-> 0]
  /\ seen = [i \in Inst |-> 0]
  /\ captured = [i \in Inst |-> EmptyDoc]
  /\ did_merge = [i \in Inst |-> FALSE]
  /\ rename_status = [i \in Inst |-> "none"]
  /\ base = vifminfo_mon
  /\ installer = 0
  /\ installed = [i \in Inst |-> FALSE]

Next ==
  \E i \in Inst :
     \/ read_parse(i)
     \/ read_monitor(i)
     \/ user_edit(i)
     \/ write_copy(i)
     \/ write_compare(i)
     \/ update_begin(i)
     \/ update_end(i)
     \/ write_monitor(i)
     \/ write_rename(i)
     \/ crash(i)

Spec == Init /\ [][Next]_vars

(***************************************************************************)
(* The same instances when their reads and save cycles never overlap: an   *)
(* instance takes a step only while the other one is not in the middle of  *)
(* read_info_file or write_info_file.                                      *)
(***************************************************************************)
Apart(i) == \A j \in Inst \ {i} : pc[j] \in {"off", "idle", "crashed"}

NextSeq ==
  \E i \in Inst :
     /\ Apart(i)
     /\ \/ read_parse(i)
        \/ read_monitor(i)
        \/ user_edit(i)
        \/ write_copy(i)
        \/ write_compare(i)
        \/ update_begin(i)
        \/ update_end(i)
        \/ write_monitor(i)
        \/ write_rename(i)
        \/ crash(i)

SpecSeq == Init /\ [][NextSeq]_vars


(***************************************************************************)
(* One merging save in isolation: instance 1 has taken its snapshot of a   *)
(* vifminfo.json that another instance wrote and has found it changed.     *)
(* The live model and the on-disk document are drawn from the families     *)
(* below; each family varies one section over all its small values and     *)
(* keeps the other sections at fixed non-empty values.                     *)
(***************************************************************************)
Reverse(s) == [i \in 1..Len(s) |-> s[Len(s) + 1 - i]]

\* sequences of [name, value] entries without a repeated name
KeyedSeqs(names, values) ==
  {q \in SeqsUpTo({[name |-> n, value |-> v] : n \in names, v \in values},
                  Cardinality(names)) : NoRepeat(Names(q))}

Take(s, n) == {s[i] : i \in 1..(IF n < Len(s) THEN n ELSE Len(s))}

MarkNames == Take(<<"h", "k", "m">>, MaxKeys)

BmarkPaths == Take(<<"/b1", "/b2", "/b3">>, MaxKeys)

CmdNames == Take(<<"foo", "bar", "baz">>, MaxKeys)

RegNames == Take(<<"a", "b", "c">>, MaxKeys)

HistItems == {"a", "b", "c"}

HistLists == SeqsUpTo(HistItems, MaxLen)

\* the state of the merging instance: something in every section
RichModel ==
  [DefaultModel EXCEPT
     !.filetypes = <<[matchers |-> "{*.jpg}",
                      records |-> <<[command |-> <<"v", ",", "w">>,
                                     description |-> <<"d">>, type |-> "user"],
                                    [command |-> <<>>, description |-> <<>>,
                                     type |-> "builtin"]>>]>>,
     !.fileviewers = <<[matchers |-> "{*.png}",
                        records |-> <<[command |-> <<"v">>, description |-> <<>>,
                                       type |-> "user"]>>]>>,
     !.cmds = <<[name |-> "foo", body |-> "echo 1"]>>,
     !.marks = <<[name |-> "h", directory |-> "/cur", file |-> "f", timestamp |-> 100]>>,
     !.bmarks = <<[path |-> "/b1", tags |-> "cur", timestamp |-> 100]>>,
     !.cmd_hist = HistOf(<<"a", "b">>),
     !.search_hist = HistOf(<<"a">>),
     !.regs = <<[name |-> "a", files |-> <<"/p1">>]>>,
     !.dir_stack = <<[lpane_dir |-> "/l", lpane_file |-> "f",
                      rpane_dir |-> "/r", rpane_file |-> "f"]>>,
     !.trash_list = <<[trash_name |-> "/trash/0_f", path |-> "/f"]>>]

\* the state of the instance that wrote the on-disk document
OtherModel ==
  [DefaultModel EXCEPT
     !.lwin = [DefaultView("/x") EXCEPT !.hide_dot = FALSE],
     !.options = <<[name |-> "vicmd", value |-> "vi"]>>,
     !.filetypes = <<[matchers |-> "{*.jpg}",
                      records |-> <<[command |-> <<"v", ",", "w">>,
                                     description |-> <<"d">>, type |-> "user"],
                                    [command |-> <<"x">>, description |-> <<>>,
                                     type |-> "user"]>>]>>,
     !.xfiletypes = <<[matchers |-> "{*.gif}",
                       records |-> <<[command |-> <<"x">>, description |-> <<>>,
                                      type |-> "user"]>>]>>,
     !.cmds = <<[name |-> "foo", body |-> "echo 2"], [name |-> "bar", body |-> "echo 2"]>>,
     !.marks = <<[name |-> "h", directory |-> "/adm", file |-> "g", timestamp |-> 200],
                 [name |-> "k", directory |-> "/adm", file |-> "g", timestamp |-> 50]>>,
     !.bmarks = <<[path |-> "/b1", tags |-> "adm", timestamp |-> 50],
                  [path |-> "/b2", tags |-> "adm", timestamp |-> 50]>>,
     !.cmd_hist = HistOf(<<"a", "c">>),
     !.prompt_hist = HistOf(<<"c">>),
     !.regs = <<[name |-> "a", files |-> <<"/p2">>], [name |-> "b", files |-> <<"/p2">>]>>,
     !.dir_stack = <<[lpane_dir |-> "/x", lpane_file |-> "g",
                      rpane_dir |-> "/r", rpane_file |-> "g"]>>,
     !.trash_list = <<[trash_name |-> "/trash/0_f", path |-> "/f"],
                      [trash_name |-> "/trash/0_g", path |-> "/g"]>>,
     !.use_term_multiplexer = TRUE, !.cs_name = "other",
     !.dirs_on_disk = {"/l", "/r", "/x"}]

RichAdm == serialize_state(OtherModel)

\* a flat history of the instance against one on disk
HistInputs ==
  {[m |-> [RichModel EXCEPT ![HistField(node)] = HistOf(Reverse(cur))],
    adm |-> IF upd = <<>> THEN [k \in DOMAIN RichAdm \ {node} |-> RichAdm[k]]
            ELSE json_object_set(RichAdm, node, upd)] :
     node \in HistNodes, cur \in HistLists, upd \in HistLists}

TsValues == {50, 100, 200}

MarkInputs ==
  {[m |-> [RichModel EXCEPT !.marks =
             [i \in 1..Len(cur) |-> [name |-> cur[i].name, directory |-> "/cur",
                                     file |-> "f", timestamp |-> cur[i].value]]],
    adm |-> json_object_set(RichAdm, "marks", upd)] :
     cur \in KeyedSeqs(MarkNames, {100}),
     upd \in KeyedSeqs(MarkNames,
                       {[dir |-> "/adm", file |-> "g", ts |-> t] : t \in TsValues}
                       \cup {[dir |-> "/adm", file |-> "g"]})}

BmarkInputs ==
  {[m |-> [RichModel EXCEPT !.bmarks =
             [i \in 1..Len(cur) |-> [path |-> cur[i].name, tags |-> "cur",
                                     timestamp |-> cur[i].value]]],
    adm |-> json_object_set(RichAdm, "bmarks", upd)] :
     cur \in KeyedSeqs(BmarkPaths, {100}),
     upd \in KeyedSeqs(BmarkPaths,
                       {[tags |-> "adm", ts |-> t] : t \in TsValues}
                       \cup {[tags |-> "adm"]})}

CmdInputs ==
  {[m |-> [RichModel EXCEPT !.cmds =
             [i \in 1..Len(cur) |-> [name |-> cur[i].name, body |-> cur[i].value]]],
    adm |-> json_object_set(RichAdm, "cmds", upd)] :
     cur \in KeyedSeqs(CmdNames, {"echo 1"}),
     upd \in KeyedSeqs(CmdNames, {"echo 1", "echo 2"})}

RegInputs ==
  {[m |-> [RichModel EXCEPT !.regs =
             [i \in 1..Len(cur) |-> [name |-> cur[i].name, files |-> cur[i].value]]],
    adm |-> json_object_set(RichAdm, "regs", upd)] :
     cur \in KeyedSeqs(RegNames, {<<>>, <<"/p1">>}),
     upd \in KeyedSeqs(RegNames, {<<"/p1">>, <<"/p2", "/p1">>})}

\* every section switched off in turn, and an instance that saves nothing
\* but the tabs
FlagInputs ==
  {[m |-> [RichModel EXCEPT !.vifm_info = flags], adm |-> RichAdm] :
     flags \in {AllFlags \ {f} : f \in AllFlags} \cup {AllFlags, {}}}

\* directory stack, trash and the remaining sections
OtherInputs ==
  {[m |-> [RichModel EXCEPT !.dir_stack_changed = changed,
                            !.trash_list = SubSeq(RichModel.trash_list, 1, ntrash)],
    adm |-> adm] :
     changed \in BOOLEAN, ntrash \in {0, 1},
     adm \in {RichAdm, EmptyDoc,
              [k \in DOMAIN RichAdm \ {"dir-stack", "trash"} |-> RichAdm[k]],
              json_object_set(RichAdm, "dir-stack", <<>>)}}

\* the document of another instance whose left view visited the directories
\* dirs (oldest first) and whose right view is in /z; the document holds the
\* global tab gtabs times and the left pane has lptabs pane tabs
AdmWithTabs(dirs, gtabs, lptabs) ==
  LET other == serialize_state(
                 [OtherModel EXCEPT
                    !.lwin = [DefaultView(dirs[Len(dirs)]) EXCEPT
                                !.history = [i \in 1..Len(dirs) |->
                                               [dir |-> dirs[i], file |-> "g", rel_pos |-> 0]],
                                !.history_pos = Len(dirs) - 1,
                                !.history_num = Len(dirs)],
                    !.rwin = DefaultView("/z")])
      gtab == other["gtabs"][1]
      lpane == [ptabs |-> [i \in 1..lptabs |-> gtab["panes"][1]["ptabs"][1]]]
  IN json_object_set(other, "gtabs",
       [i \in 1..gtabs |-> json_object_set(gtab, "panes", <<lpane, gtab["panes"][2]>>)])

\* pane histories: the left view of the instance has visited one or two
\* directories and the history has room for one more, for more or for none;
\* the other instance visited /x, which exists or not, and /w or /y; the
\* on-disk document has one global tab or two and its left pane no, one or
\* two pane tabs
TabInputs ==
  {[m |-> [RichModel EXCEPT
             !.history_len = len,
             !.dirs_on_disk = {"/l", "/r", "/y", "/z", "/w"} \cup extra,
             !.lwin = [DefaultView("/l") EXCEPT
                         !.history = SubSeq(<<[dir |-> "/y", file |-> "f", rel_pos |-> 1],
                                              [dir |-> "/l", file |-> "f", rel_pos |-> 0]>>,
                                            3 - n, 2),
                         !.history_pos = n - 1,
                         !.history_num = n]],
    adm |-> AdmWithTabs(dirs, gtabs, lptabs)] :
     len \in {2, 5}, n \in {1, 2}, gtabs \in {1, 2}, lptabs \in {0, 1, 2},
     extra \in {{}, {"/x"}},
     dirs \in {<<"/x">>, <<"/w", "/x">>, <<"/x", "/w">>, <<"/y", "/x">>}}

AssocNodes == {"assocs", "xassocs", "viewers"}

AssocField(node) ==
  CASE node = "assocs" -> "filetypes"
    [] node = "xassocs" -> "xfiletypes"
    [] node = "viewers" -> "fileviewers"

\* an association list of the instance against one on disk; an on-disk entry
\* may lack its command
AssocInputs ==
  {[m |-> [RichModel EXCEPT ![AssocField(node)] = cur],
    adm |-> json_object_set(RichAdm, node, upd)] :
     node \in AssocNodes,
     cur \in SeqsUpTo({[matchers |-> ms,
                        records |-> <<[command |-> <<"v">>, description |-> <<>>,
                                       type |-> "user"]>>] :
                         ms \in {"{*.jpg}", "{*.png}"}}, 2),
     upd \in SeqsUpTo({[matchers |-> "{*.jpg}", cmd |-> <<"v">>],
                       [matchers |-> "{*.jpg}", cmd |-> <<"w">>],
                       [matchers |-> "{*.gif}"]}, MaxLen)}

InputFamilies ==
  <<HistInputs, MarkInputs, BmarkInputs, CmdInputs, RegInputs, FlagInputs, OtherInputs,
    TabInputs, AssocInputs>>

\* the same instance when the on-disk document is the very document it
\* captures
SelfInput(x) == [m |-> x.m, adm |-> serialize_state(x.m)]

\* instance 1 is about to call update_info_file with vifminfo_changed set and
\* a snapshot of vifminfo.json in its temporary file
StartMerge(x) ==
  /\ fs = [p \in Paths |->
             IF p = info_file THEN CompleteFile(x.adm, 1)
             ELSE IF p = tmp_file(1) THEN CompleteFile(x.adm, 0)
             ELSE NoFile]
  /\ clock = 2
  /\ pc = [i \in Inst |-> IF i = 1 THEN "compared" ELSE "off"]
  /\ live = [i \in Inst |-> IF i = 1 THEN x.m ELSE SpecModel]
  /\ vifminfo_mon = [i \in Inst |-> 0]
  /\ vifminfo_changed = [i \in Inst |-> i = 1]
  /\ current = [i \in Inst |-> EmptyDoc]
  /\ nsaves = [i \in Inst |-> IF i = 1 THEN MaxSaves ELSE 0]
  /\ edited = [i \in Inst |-> i = 1]
  /\ snap = [i \in Inst |-> IF i = 1 THEN 1 ELSE 0]
  /\ seen = [i \in Inst |-> IF i = 1 THEN 1 ELSE 0]
  /\ captured = [i \in Inst |-> EmptyDoc]
  /\ did_merge = [i \in Inst |-> FALSE]
  /\ rename_status = [i \in Inst |-> "none"]
  /\ base = vifminfo_mon
  /\ installer = 0
  /\ installed = [i \in Inst |-> FALSE]

InitMerge ==
  \E f \in 1..Len(InputFamilies) :
     \E x \in InputFamilies[f] :
        \E y \in {x, SelfInput(x)} : StartMerge(y)

NextMerge ==
  \/ update_begin(1)
  \/ update_end(1)
  \/ write_monitor(1)
  \/ write_rename(1)

SpecMerge == InitMerge /\ [][NextMerge]_vars

(***************************************************************************)
(* An instance starts with a fresh model, reads the file another session   *)
(* left behind and then saves once.                                        *)
(***************************************************************************)
\* a view at startup: nothing is in its history yet
FreshView(dir) ==
  [DefaultView(dir) EXCEPT !.history = <<>>, !.history_pos = 0, !.history_num = 0]

\* the model at startup with the flags and the history capacity given by the
\* configuration
FreshModel(flags, len) ==
  [DefaultModel EXCEPT !.vifm_info = flags, !.history_len = len,
                       !.lwin = FreshView("/l"), !.rwin = FreshView("/r"),
                       !.dirs_on_disk = {"/l", "/r", "/x", "/y", "/z", "/w"}]

LoadItems == <<"a", "b", "c", "d", "e", "g">>

LoadDirs == <<"/x", "/y", "/z", "/w", "/l", "/r">>

\* a view that visited the first k directories of LoadDirs and is in the
\* last of them
VisitedView(k, invert, hide_dot, sort) ==
  [DefaultView(LoadDirs[k]) EXCEPT
     !.history = [i \in 1..k |-> [dir |-> LoadDirs[i], file |-> "f", rel_pos |-> i]],
     !.history_pos = k - 1, !.history_num = k,
     !.invert = invert, !.hide_dot = hide_dot, !.sort = sort,
     !.manual_filter = "m", !.auto_filter = "a"]

\* the session that wrote the file: n items in its command-line history, nf
\* in its filter history, k directories in the history of its left view
WriterModel(flags, n, nf, k, invert, hide_dot, sort) ==
  [OtherModel EXCEPT
     !.vifm_info = flags, !.history_len = MaxLen + 2,
     !.cmd_hist = HistOf(SubSeq(LoadItems, 1, n)),
     !.filter_hist = HistOf(SubSeq(LoadItems, 1, nf)),
     !.lwin = VisitedView(k, invert, hide_dot, sort),
     !.dirs_on_disk = {"/l", "/r", "/x", "/y", "/z", "/w"}]

\* the filters of a pane are written without the options of the pane, whose
\* 'dotfiles' token the model does not interpret
LoadFlags == {AllFlags \ {"options"}, AllFlags \ {"state"}, AllFlags \ {"state", "options"}}

LoadSorts == {<<SK_DEFAULT, SK_NONE, SK_NONE>>, <<0 - 1, 3, SK_NONE>>}

\* a fresh model and the document it finds on disk
LoadInputs ==
  {[m |-> FreshModel(flags, len),
    doc |-> serialize_state(WriterModel(flags, n, nf, k, invert, hide_dot, sort))] :
     flags \in LoadFlags, len \in {1, MaxLen + 2}, n \in 0..(MaxLen + 1),
     nf \in 0..1, k \in 1..(MaxLen + 1), invert \in BOOLEAN, hide_dot \in BOOLEAN,
     sort \in LoadSorts}

StartLoad(x) ==
  /\ fs = [p \in Paths |-> IF p = info_file THEN CompleteFile(x.doc, 1) ELSE NoFile]
  /\ clock = 2
  /\ pc = [i \in Inst |-> "off"]
  /\ live = [i \in Inst |-> IF i = 1 THEN x.m ELSE SpecModel]
  /\ vifminfo_mon = [i \in Inst |-> 0]
  /\ vifminfo_changed = [i \in Inst |-> FALSE]
  /\ current = [i \in Inst |-> EmptyDoc]
  /\ nsaves = [i \in Inst |-> IF i = 1 THEN MaxSaves - 1 ELSE 0]
  /\ edited = [i \in Inst |-> i = 1]
  /\ snap = [i \in Inst |-> 0]
  /\ seen = [i \in Inst |-> 0]
  /\ captured = [i \in Inst |-> EmptyDoc]
  /\ did_merge = [i \in Inst |-> FALSE]
  /\ rename_status = [i \in Inst |-> "none"]
  /\ base = vifminfo_mon
  /\ installer = 0
  /\ installed = [i \in Inst |-> FALSE]

InitLoad == \E x \in LoadInputs : StartLoad(x)

NextLoad ==
  \/ read_parse(1)
  \/ read_monitor(1)
  \/ write_copy(1)
  \/ write_compare(1)
  \/ update_begin(1)
  \/ update_end(1)
  \/ write_monitor(1)
  \/ write_rename(1)

SpecLoad == InitLoad /\ [][NextLoad]_vars

(***************************************************************************)
(* Documents with a field of the wrong type: a mark whose "ts" is a string *)
(* and a history entry whose "relpos" is a string.  An instance merges     *)
(* such a document into its save, or a fresh instance loads it.            *)
(***************************************************************************)
\* the values that an uninitialized local is drawn from
UninitValues == {0, 1000}

MistypedMark == (WrongType("ts") :> "soon") @@ [dir |-> "/adm", file |-> "g"]

MistypedEntry == (WrongType("relpos") :> "top") @@ [dir |-> "/w", file |-> "f"]

MistypedMarks ==
  KeyedSeqs(MarkNames, {MistypedMark, [dir |-> "/adm", file |-> "g", ts |-> 200]})

\* the document with the entry put last in the history of its left pane
WithLeftEntry(doc, entry) ==
  [doc EXCEPT !["gtabs"][1]["panes"][1]["ptabs"][1]["history"] = Append(@, entry)]

MistypedMergeInputs ==
  {[m |-> [RichModel EXCEPT
             !.uninit = u,
             !.marks = [i \in 1..Len(cur) |->
                          [name |-> cur[i].name, directory |-> "/cur", file |-> "f",
                           timestamp |-> cur[i].value]]],
    adm |-> json_object_set(RichAdm, "marks", upd)] :
     u \in UninitValues, cur \in KeyedSeqs(MarkNames, {100}), upd \in MistypedMarks}

MistypedLoadInputs ==
  {[m |-> [FreshModel(AllFlags \ {"options"}, MaxLen + 2) EXCEPT !.uninit = u],
    doc |-> IF entry
            THEN WithLeftEntry(json_object_set(RichAdm, "marks", upd), MistypedEntry)
            ELSE json_object_set(RichAdm, "marks", upd)] :
     u \in UninitValues, entry \in BOOLEAN, upd \in MistypedMarks}

InitMistyped ==
  \/ \E x \in MistypedMergeInputs : StartMerge(x)
  \/ \E x \in MistypedLoadInputs : StartLoad(x)

SpecMistyped == InitMistyped /\ [][NextLoad]_vars

(***************************************************************************)
(* A fresh instance loads the file, or a running session with its own      *)
(* active pane and number of windows reads it again on :restart.           *)
(***************************************************************************)
\* the document of a session with the given active pane and number of
\* windows, written with or without the TUI flag
TuiDoc(flags, view, windows) ==
  serialize_state([OtherModel EXCEPT !.vifm_info = flags, !.curr_view = view,
                                     !.number_of_windows = windows, !.preview = TRUE,
                                     !.splitter_pos = 30, !.split = "h"])

RereadInputs ==
  {[m |-> [FreshModel(flags, MaxLen + 2) EXCEPT
             !.curr_view = own_view, !.number_of_windows = own_windows],
    doc |-> TuiDoc(flags, view, windows),
    reread |-> reread] :
     flags \in {AllFlags \ {"options"}, AllFlags \ {"options", "tui"}},
     own_view \in {"lwin", "rwin"}, own_windows \in {1, 2},
     view \in {"lwin", "rwin"}, windows \in {1, 2}, reread \in BOOLEAN}

\* a running session has the pane and the windows of its own; a fresh one
\* starts with the left pane active and two windows
InitReread ==
  \E x \in RereadInputs :
     /\ x.reread \/ (x.m.curr_view = "lwin" /\ x.m.number_of_windows = 2)
     /\ fs = [p \in Paths |-> IF p = info_file THEN CompleteFile(x.doc, 1) ELSE NoFile]
     /\ clock = 2
     /\ pc = [i \in Inst |-> IF i = 1 /\ x.reread THEN "restarting" ELSE "off"]
     /\ live = [i \in Inst |-> IF i = 1 THEN x.m ELSE SpecModel]
     /\ vifminfo_mon = [i \in Inst |-> IF i = 1 /\ x.reread THEN 1 ELSE 0]
     /\ vifminfo_changed = [i \in Inst |-> FALSE]
     /\ current = [i \in Inst |-> EmptyDoc]
     /\ nsaves = [i \in Inst |-> IF i = 1 THEN MaxSaves - 1 ELSE 0]
     /\ edited = [i \in Inst |-> i = 1]
     /\ snap = [i \in Inst |-> 0]
     /\ seen = [i \in Inst |-> 0]
     /\ captured = [i \in Inst |-> EmptyDoc]
     /\ did_merge = [i \in Inst |-> FALSE]
     /\ rename_status = [i \in Inst |-> "none"]
     /\ base = vifminfo_mon
     /\ installer = 0
     /\ installed = [i \in Inst |-> FALSE]

NextReread ==
  \/ reread_parse(1)
  \/ read_parse(1)
  \/ read_monitor(1)
  \/ write_copy(1)
  \/ write_compare(1)
  \/ update_begin(1)
  \/ update_end(1)
  \/ write_monitor(1)
  \/ write_rename(1)

SpecReread == InitReread /\ [][NextReread]_vars

(***************************************************************************)
(* Sort lines: a fresh instance loads a document whose left pane has a     *)
(* "sorting" string made of up to MaxTokens pieces, numbers with and       *)
(* without a sign, separators and characters no number contains.           *)
(***************************************************************************)
MaxTokens == 4

SortTokens ==
  {<<"1">>, <<"-", "2">>, <<"+", "3">>, <<"1", "7">>, <<",">>, <<"x">>, <<"-">>, <<" ">>}

RECURSIVE SortLinesOf(_)
SortLinesOf(n) ==
  IF n = 0 THEN {<<>>}
  ELSE LET shorter == SortLinesOf(n - 1)
       IN shorter \cup {line \o token : line \in shorter, token \in SortTokens}

SortLines == SortLinesOf(MaxTokens)

WithLeftSorting(doc, line) ==
  [doc EXCEPT !["gtabs"][1]["panes"][1]["ptabs"][1]["sorting"] = line]

SortInputs ==
  {[m |-> FreshModel(AllFlags \ {"options"}, MaxLen + 2),
    doc |-> WithLeftSorting(TuiDoc(AllFlags \ {"options"}, "lwin", 2), line)] :
     line \in SortLines}

InitSort == \E x \in SortInputs : StartLoad(x)

NextSort ==
  \/ read_parse(1)
  \/ read_monitor(1)

SpecSort == InitSort /\ [][NextSort]_vars

(***************************************************************************)
(* Legacy files: a fresh instance starts in a configuration directory that *)
(* has a legacy file of up to two records, whole or cut off after any of   *)
(* its lines, and no vifminfo.json, or one that cannot be parsed, or one   *)
(* that can.                                                               *)
(***************************************************************************)
MarkLines == << <<"'", "h">>, <<"/adm">>, <<"g">> >>

\* what may stand where the timestamp of a mark is looked for
TimestampLines == {<<"1", "5", "0">>, <<"+", "7">>, <<"-", "1">>, <<"7", "x">>, <<"-">>}

MarkRecords == {MarkLines} \cup {Append(MarkLines, ts) : ts \in TimestampLines}

FollowUpRecords ==
  {<< <<".", "*.c">>, <<"v", "i">> >>,
   << <<".", "*/">>, <<"{", "Enter", "}", "vifm">> >>,
   << <<"x", "*.sh">>, <<"s", "h">> >>,
   << <<",", "*.c">>, <<"c", "a", "t">> >>,
   << <<"!", "c0">>, <<"echo">> >>,
   << <<"b", "/bm">>, <<"tag">>, <<"7", "7">> >>,
   << <<"b", "/bad">>, <<"tag">>, <<"7", "x">> >>,
   << <<"d", "/w">>, <<" ", "f">>, <<"2">> >>,
   << <<"d", "/x">>, <<"f">> >>,
   << <<"D", "/y">>, <<"f">>, <<"4">> >>,
   << <<"S", "/l">>, <<"lf">>, <<"S", "/r">>, <<"rf">> >>,
   << <<"t", "old">>, <<"/home/o">> >>,
   << <<"t", "/trash/new">>, <<"/home/n">> >>}

SingleRecords ==
  {<< <<"=", "vicmd", "=", "vi">> >>, << <<"=", "[", "number">> >>,
   << <<"=", "]", "nonumber">> >>,
   << <<"a", "r">> >>, << <<"q", "1">> >>, << <<"v", "1">> >>, << <<"o", "h">> >>,
   << <<"m", "4", "0">> >>, << <<"l", "-", "1", ",", "3">> >>, << <<"r", "2">> >>,
   << <<"d">> >>, << <<"D">> >>,
   << <<":", "h0">> >>, << <<"/", "pat">> >>, << <<"p", "ans">> >>, << <<"|", "flt">> >>,
   << <<"\"", "a", "/file">> >>, << <<"\"", "z", "/file">> >>,
   << <<"f", "man">> >>, << <<"F", "man">> >>, << <<"i", "1">> >>, << <<"I", "1">> >>,
   << <<"s", "1">> >>, << <<"c", "dark">> >>,
   << <<"[", ".", "0">> >>, << <<"[", "F", "aut">> >>,
   << <<"]", ".", "0">> >>, << <<"]", "F", "aut">> >>,
   << <<"#", "note">> >>, << <<>> >>, << <<"z", "zz">> >>}

LegacyRecords == MarkRecords \cup FollowUpRecords \cup SingleRecords

\* the first n lines of the two records
CutFiles(a, b) == {SubSeq(a \o b, 1, n) : n \in 1..(Len(a) + Len(b))}

LegacyFiles == UNION {CutFiles(a, b) : a, b \in LegacyRecords}

LegacyModel == FreshModel(AllFlags \ {"options"}, MaxLen + 2)

LegacyInputs ==
  {[m |-> LegacyModel, legacy |-> LegacyFile(lines), primary |-> NoFile] :
     lines \in LegacyFiles}
  \cup
  {[m |-> LegacyModel, legacy |-> legacy, primary |-> primary] :
     legacy \in {NoFile} \cup {LegacyFile(lines) : lines \in MarkRecords},
     primary \in {NoFile, PartialFile,
                  CompleteFile(TuiDoc(AllFlags \ {"options"}, "rwin", 2), 1)}}

InitLegacy ==
  \E x \in LegacyInputs :
     /\ fs = [p \in Paths |-> IF p = info_file THEN x.primary
                              ELSE IF p = legacy_info_file THEN x.legacy
                              ELSE NoFile]
     /\ clock = 2
     /\ pc = [i \in Inst |-> "off"]
     /\ live = [i \in Inst |-> IF i = 1 THEN x.m ELSE SpecModel]
     /\ vifminfo_mon = [i \in Inst |-> 0]
     /\ vifminfo_changed = [i \in Inst |-> FALSE]
     /\ current = [i \in Inst |-> EmptyDoc]
     /\ nsaves = [i \in Inst |-> IF i = 1 THEN MaxSaves - 1 ELSE 0]
     /\ edited = [i \in Inst |-> i = 1]
     /\ snap = [i \in Inst |-> 0]
     /\ seen = [i \in Inst |-> 0]
     /\ captured = [i \in Inst |-> EmptyDoc]
     /\ did_merge = [i \in Inst |-> FALSE]
     /\ rename_status = [i \in Inst |-> "none"]
     /\ base = vifminfo_mon
     /\ installer = 0
     /\ installed = [i \in Inst |-> FALSE]

NextLegacy ==
  \/ read_parse(1)
  \/ read_monitor(1)
  \/ write_copy(1)
  \/ write_compare(1)
  \/ update_begin(1)
  \/ update_end(1)
  \/ write_monitor(1)
  \/ write_rename(1)

SpecLegacy == InitLegacy /\ [][NextLegacy]_vars

(***************************************************************************)
(* An instance merges a flat history of the file into its save and         *)
(* installs the result; a second instance starts and reads whichever       *)
(* version of the file is there.                                           *)
(***************************************************************************)
\* the reader has room for every item of a merged list
ReaderModel == [SpecModel EXCEPT !.history_len = 2 * MaxLen + 1]

InitHistory ==
  \E x \in HistInputs :
     /\ fs = [p \in Paths |->
                IF p = info_file THEN CompleteFile(x.adm, 1)
                ELSE IF p = tmp_file(1) THEN CompleteFile(x.adm, 0)
                ELSE NoFile]
     /\ clock = 2
     /\ pc = [i \in Inst |-> IF i = 1 THEN "compared" ELSE "off"]
     /\ live = [i \in Inst |-> IF i = 1 THEN x.m ELSE ReaderModel]
     /\ vifminfo_mon = [i \in Inst |-> 0]
     /\ vifminfo_changed = [i \in Inst |-> i = 1]
     /\ current = [i \in Inst |-> EmptyDoc]
     /\ nsaves = [i \in Inst |-> IF i = 1 THEN MaxSaves ELSE 0]
     /\ edited = [i \in Inst |-> i = 1]
     /\ snap = [i \in Inst |-> IF i = 1 THEN 1 ELSE 0]
     /\ seen = [i \in Inst |-> IF i = 1 THEN 1 ELSE 0]
     /\ captured = [i \in Inst |-> EmptyDoc]
     /\ did_merge = [i \in Inst |-> FALSE]
     /\ rename_status = [i \in Inst |-> "none"]
     /\ base = vifminfo_mon
     /\ installer = 0
     /\ installed = [i \in Inst |-> FALSE]

NextHistory ==
  \/ update_begin(1)
  \/ update_end(1)
  \/ write_monitor(1)
  \/ write_rename(1)
  \/ read_parse(2)
  \/ read_monitor(2)

SpecHistory == InitHistory /\ [][NextHistory]_vars

(***************************************************************************)
(* A fresh instance, or a running session on :restart, reads a file whose  *)
(* left pane has a directory history of up to MaxLen + 1 entries, some     *)
(* with a negative position and some without a file name, and the          *)
(* restore-last-location key set, cleared or missing.                      *)
(***************************************************************************)
DhDirs == {"/x", "/y", "/z"}

DhEntries ==
  {[dir |-> d, file |-> "f", relpos |-> r] : d \in DhDirs, r \in {0 - 3, 2}}
    \cup {[dir |-> "/w", relpos |-> 1]}

\* what a session writes: no two entries in a row for one directory
DhLists ==
  {h \in SeqsUpTo(DhEntries, MaxLen + 1) :
     \A n \in 1..(Len(h) - 1) : h[n].dir # h[n + 1].dir}

\* the tab of the left pane with the history and the key as given; "none"
\* for a tab without the key
WithLeftHistory(doc, history, restore) ==
  [doc EXCEPT !["gtabs"][1]["panes"][1]["ptabs"][1] =
     IF restore = "none"
     THEN [k \in DOMAIN @ \ {"restore-last-location"} |->
             IF k = "history" THEN history ELSE @[k]]
     ELSE [k \in DOMAIN @ \cup {"restore-last-location"} |->
             IF k = "history" THEN history
             ELSE IF k = "restore-last-location" THEN restore = "yes"
             ELSE @[k]]]

DhInputs ==
  {[m |-> IF reread
          THEN [FreshModel(AllFlags \ {"options"}, MaxLen + 2) EXCEPT
                  !.lwin = DefaultView("/l")]
          ELSE FreshModel(AllFlags \ {"options"}, MaxLen + 2),
    doc |-> WithLeftHistory(TuiDoc(AllFlags \ {"options"}, "lwin", 2), h, restore),
    reread |-> reread] :
     h \in DhLists, restore \in {"yes", "no", "none"}, reread \in BOOLEAN}

InitDHistory ==
  \E x \in DhInputs :
     /\ fs = [p \in Paths |-> IF p = info_file THEN CompleteFile(x.doc, 1) ELSE NoFile]
     /\ clock = 2
     /\ pc = [i \in Inst |-> IF i = 1 /\ x.reread THEN "restarting" ELSE "off"]
     /\ live = [i \in Inst |-> IF i = 1 THEN x.m ELSE SpecModel]
     /\ vifminfo_mon = [i \in Inst |-> IF i = 1 /\ x.reread THEN 1 ELSE 0]
     /\ vifminfo_changed = [i \in Inst |-> FALSE]
     /\ current = [i \in Inst |-> EmptyDoc]
     /\ nsaves = [i \in Inst |-> IF i = 1 THEN MaxSaves ELSE 0]
     /\ edited = [i \in Inst |-> i = 1]
     /\ snap = [i \in Inst |-> 0]
     /\ seen = [i \in Inst |-> 0]
     /\ captured = [i \in Inst |-> EmptyDoc]
     /\ did_merge = [i \in Inst |-> FALSE]
     /\ rename_status = [i \in Inst |-> "none"]
     /\ base = vifminfo_mon
     /\ installer = 0
     /\ installed = [i \in Inst |-> FALSE]

NextDHistory ==
  \/ reread_parse(1)
  \/ read_parse(1)
  \/ read_monitor(1)

SpecDHistory == InitDHistory /\ [][NextDHistory]_vars

(***************************************************************************)
(* A fresh instance reads a file with one association whose command list   *)
(* is any string of up to MaxCmd characters, commas among them.            *)
(***************************************************************************)
MaxCmd == 5

CmdChars == {"e", ","}

CmdStrings == SeqsUpTo(CmdChars, MaxCmd)

WithAssoc(doc, cmd) ==
  json_object_set(doc, "assocs", <<[matchers |-> "{*.c}", cmd |-> cmd]>>)

CommaInputs ==
  {[m |-> FreshModel(AllFlags \ {"options"}, MaxLen + 2),
    doc |-> WithAssoc(TuiDoc(AllFlags \ {"options"}, "lwin", 2), cmd)] :
     cmd \in CmdStrings}

InitComma == \E x \in CommaInputs : StartLoad(x)

NextComma ==
  \/ read_parse(1)
  \/ read_monitor(1)

SpecComma == InitComma /\ [][NextComma]_vars

\* the documents of a merging save of instance 1: what the instance captured,
\* what was on disk and what it holds after merge_states
Merged == pc[1] \in {"writing", "written", "monitored"} /\ did_merge[1]

Cur == captured[1]

Adm == fs[info_file].doc

Res == current[1]

(***************************************************************************)
(* Entries of the append-merged sections of a document.                    *)
(***************************************************************************)
CmdEntries(doc) == Range(json_object_get_object(doc, "cmds"))

RegEntries(doc) == Range(json_object_get_object(doc, "regs"))

HistEntries(doc, node) == Range(json_object_get_array(doc, node))

TrashEntries(doc) == Range(json_object_get_array(doc, "trash"))

\* the entries the user of instance i made, as they appear in a document
OwnCmdEntry(i) == [name |-> OwnCmd(i), value |-> "echo"]

OwnRegEntry(i) == [name |-> OwnReg(i), value |-> <<"/file">>]

\* every entry of instance i that d holds is in e
KeepsEntriesOf(i, d, e) ==
  /\ OwnCmdEntry(i) \in CmdEntries(d) => OwnCmdEntry(i) \in CmdEntries(e)
  /\ OwnRegEntry(i) \in RegEntries(d) => OwnRegEntry(i) \in RegEntries(e)
  /\ OwnItem(i) \in HistEntries(d, "cmd-hist") => OwnItem(i) \in HistEntries(e, "cmd-hist")

\* instance j completes a save cycle in this step by a successful rename
Installs(j) ==
  /\ pc[j] = "monitored"
  /\ pc'[j] = "idle"
  /\ rename_status'[j] = "ok"

(***************************************************************************)
(* C1 as stated: in every interleaving of the save steps of two instances, *)
(* an entry that one instance's completed save put into vifminfo.json is   *)
(* still in the file after the other instance's save completes.            *)
(***************************************************************************)
C1_NeverClobbers ==
  [][\A i, j \in Inst :
       (i # j /\ Installs(j))
         => KeepsEntriesOf(i, fs[info_file].doc, fs'[info_file].doc)]_vars

(***************************************************************************)
(* What the merge does keep (C1): a save cycle that decided to merge and    *)
(* that installs its file over the very version it took its snapshot of    *)
(* (no other save completed between its copy and its rename) keeps every   *)
(* command, register and command-line history item of the other instance   *)
(* that the file held.                                                     *)
(***************************************************************************)
C1_MergingSaveKeeps ==
  [][\A i, j \in Inst :
       (i # j /\ Installs(j) /\ did_merge[j]
        /\ snap[j] = filemon_from_file(fs[info_file]))
         => KeepsEntriesOf(i, fs[info_file].doc, fs'[info_file].doc)]_vars

\* a file that holds the entries of both instances after a merging save of
\* instance 2 whose own capture lacked those of instance 1
C1_Witness ==
  /\ pc[2] = "idle"
  /\ rename_status[2] = "ok"
  /\ did_merge[2]
  /\ fs[info_file].exists
  /\ fs[info_file].doc = current[2]
  /\ OwnCmdEntry(1) \in CmdEntries(fs[info_file].doc)
  /\ OwnCmdEntry(1) \notin CmdEntries(captured[2])
  /\ OwnCmdEntry(2) \in CmdEntries(fs[info_file].doc)
  /\ OwnItem(1) \in HistEntries(fs[info_file].doc, "cmd-hist")
  /\ OwnItem(1) \notin HistEntries(captured[2], "cmd-hist")
  /\ OwnRegEntry(1) \in RegEntries(fs[info_file].doc)

(***************************************************************************)
(* C2: update_info_file merges if and only if the fingerprint of           *)
(* vifminfo.json read by write_info_file differs from the baseline or      *)
(* could not be read; without a merge the captured document is what is     *)
(* written.                                                                *)
(***************************************************************************)
C2_MergeIffChanged ==
  \A i \in Inst :
     pc[i] \in {"writing", "written"} =>
       /\ did_merge[i] <=> (seen[i] = 0 \/ seen[i] # vifminfo_mon[i])
       /\ ~did_merge[i] => current[i] = captured[i]
       /\ (~did_merge[i] /\ pc[i] = "written") => fs[tmp_file(i)].doc = captured[i]

\* instance 1 writes its capture unmerged while instance 2 writes a merged
\* document that differs from its capture
C2_Witness ==
  /\ pc[1] = "written" /\ ~did_merge[1] /\ seen[1] # 0
  /\ fs[tmp_file(1)].doc = captured[1]
  /\ pc[2] = "written" /\ did_merge[2] /\ seen[2] # 0
  /\ current[2] # captured[2]

C4_RenameFailure ==
  [][\A i \in Inst :
       (pc[i] = "monitored" /\ rename_status'[i] = "failed")
         => /\ fs'[info_file] = fs[info_file]
            /\ ~fs'[tmp_file(i)].exists
            /\ pc'[i] = "idle"]_vars

C4_Witness ==
  \E i \in Inst :
     /\ pc[i] = "idle"
     /\ rename_status[i] = "failed"
     /\ fs[info_file].exists
     /\ fs[info_file].doc # current[i]
     /\ ~fs[tmp_file(i)].exists


(***************************************************************************)
(* Sections of the document and the VINFO_* bit that enables each.         *)
(***************************************************************************)
SectionFlag(key) ==
  CASE key = "options" -> "options"
    [] key \in {"assocs", "xassocs", "viewers"} -> "filetypes"
    [] key = "cmds" -> "commands"
    [] key = "marks" -> "marks"
    [] key = "bmarks" -> "bookmarks"
    [] key = "cmd-hist" -> "chistory"
    [] key = "search-hist" -> "shistory"
    [] key = "prompt-hist" -> "phistory"
    [] key = "lfilt-hist" -> "fhistory"
    [] key = "regs" -> "registers"
    [] key = "dir-stack" -> "dirstack"
    [] key = "use-term-multiplexer" -> "state"
    [] key = "color-scheme" -> "cs"

FlaggedSections ==
  {"options", "assocs", "xassocs", "viewers", "cmds", "marks", "bmarks",
   "cmd-hist", "search-hist", "prompt-hist", "lfilt-hist", "regs", "dir-stack",
   "use-term-multiplexer", "color-scheme"}

\* the sections of an instance whose flag is not set
Disabled(i) == {key \in FlaggedSections : SectionFlag(key) \notin live[i].vifm_info}

\* the pane tab of pane p (1 left, 2 right) of the only global tab
PaneTab(doc, p) == doc["gtabs"][1]["panes"][p]["ptabs"][1]

RECURSIVE Without(_, _)
Without(list, set) ==
  IF list = <<>> THEN <<>>
  ELSE IF Head(list) \in set THEN Without(Tail(list), set)
  ELSE <<Head(list)>> \o Without(Tail(list), set)

C6_MergeHistory ==
  Merged =>
    \A node \in HistNodes :
       SectionFlag(node) \in live[1].vifm_info =>
         LET cur == json_object_get_array(Cur, node)
             upd == json_object_get_array(Adm, node)
             res == json_object_get_array(Res, node)
         IN /\ res = Without(upd, Range(cur)) \o cur
            /\ (cur = <<"b", "a">> /\ upd = <<"c", "a">>) => res = <<"c", "b", "a">>
            /\ (NoRepeat(cur) /\ NoRepeat(upd)) => NoRepeat(res)

C6_Witness ==
  /\ Merged
  /\ json_object_get_array(Cur, "prompt-hist") = <<"b", "a">>
  /\ json_object_get_array(Adm, "prompt-hist") = <<"c", "a">>
  /\ json_object_get_array(Res, "prompt-hist") = <<"c", "b", "a">>

(***************************************************************************)
(* C7: for marks and bookmarks, every admixture key with a timestamp maps  *)
(* in the result to the admixture's entry when current has no entry under  *)
(* the key or an entry with an older timestamp, and to current's entry,    *)
(* unchanged, when current's timestamp is equal or newer.                  *)
(***************************************************************************)
NewestWins(cur, upd, res) ==
  \A i \in 1..Len(upd) :
     get_double(upd[i].value, "ts") =>
       /\ json_object_has_value(res, upd[i].name)
       /\ json_object_get_value(res, upd[i].name) =
            IF json_object_has_value(cur, upd[i].name)
               /\ ~(upd[i].value.ts > json_object_get_value(cur, upd[i].name).ts)
            THEN json_object_get_value(cur, upd[i].name)
            ELSE upd[i].value

C7_NewestWins ==
  Merged =>
    /\ "marks" \in live[1].vifm_info =>
         NewestWins(json_object_get_object(Cur, "marks"),
                    json_object_get_object(Adm, "marks"),
                    json_object_get_object(Res, "marks"))
    /\ "bookmarks" \in live[1].vifm_info =>
         NewestWins(json_object_get_object(Cur, "bmarks"),
                    json_object_get_object(Adm, "bmarks"),
                    json_object_get_object(Res, "bmarks"))

\* current has h and k at 100; the admixture has h at 200 and k at 50
C7_Witness ==
  /\ Merged
  /\ json_object_get_object(Cur, "marks") =
       <<[name |-> "h", value |-> [dir |-> "/cur", file |-> "f", ts |-> 100]],
         [name |-> "k", value |-> [dir |-> "/cur", file |-> "f", ts |-> 100]]>>
  /\ json_object_get_object(Adm, "marks") =
       <<[name |-> "h", value |-> [dir |-> "/adm", file |-> "g", ts |-> 200]],
         [name |-> "k", value |-> [dir |-> "/adm", file |-> "g", ts |-> 50]]>>
  /\ json_object_get_object(Res, "marks") =
       <<[name |-> "h", value |-> [dir |-> "/adm", file |-> "g", ts |-> 200]],
         [name |-> "k", value |-> [dir |-> "/cur", file |-> "f", ts |-> 100]]>>

(***************************************************************************)
(* C8: merge_commands never overwrites: every command of current keeps     *)
(* its body, and an admixture command is added exactly when current has    *)
(* no command of that name.                                                *)
(***************************************************************************)
C8_CommandsNeverOverwritten ==
  (Merged /\ "commands" \in live[1].vifm_info) =>
    LET cur == json_object_get_object(Cur, "cmds")
        upd == json_object_get_object(Adm, "cmds")
        res == json_object_get_object(Res, "cmds")
    IN /\ \A i \in 1..Len(cur) :
             /\ json_object_has_value(res, cur[i].name)
             /\ json_object_get_value(res, cur[i].name) = cur[i].value
       /\ \A i \in 1..Len(upd) :
             ~json_object_has_value(cur, upd[i].name) =>
                /\ json_object_has_value(res, upd[i].name)
                /\ json_object_get_value(res, upd[i].name) = upd[i].value
       /\ Range(Names(res)) = Range(Names(cur)) \cup Range(Names(upd))

\* current has foo -> "echo 1", the admixture foo -> "echo 2" and bar
C8_Witness ==
  /\ Merged
  /\ json_object_get_object(Cur, "cmds") = <<[name |-> "foo", value |-> "echo 1"]>>
  /\ json_object_get_object(Adm, "cmds") = <<[name |-> "foo", value |-> "echo 2"],
                                             [name |-> "bar", value |-> "echo 2"]>>
  /\ json_object_get_object(Res, "cmds") = <<[name |-> "foo", value |-> "echo 1"],
                                             [name |-> "bar", value |-> "echo 2"]>>

(***************************************************************************)
(* C9: captured and merged documents hold at most one entry per key in     *)
(* marks, bmarks, cmds and regs.                                           *)
(***************************************************************************)
KeyedSections == {"marks", "bmarks", "cmds", "regs"}

UniqueKeys(doc) ==
  \A key \in KeyedSections : NoRepeat(Names(json_object_get_object(doc, key)))

C10_Idempotent == (Merged /\ Adm = Cur) => Res = Cur

\* a self-merge of a document with something in every section
C10_Witness ==
  /\ Merged
  /\ Adm = Cur
  /\ \A key \in {"assocs", "viewers", "cmds", "marks", "bmarks", "cmd-hist",
                 "search-hist", "regs", "dir-stack", "trash"} :
        json_object_has(Cur, key) /\ Len(Cur[key]) > 0
  /\ Len(json_object_get_array(PaneTab(Cur, 1), "history")) = 2

(***************************************************************************)
(* Pane histories of a document, read without assuming that the document   *)
(* has a global tab, a pane or a pane tab.                                 *)
(***************************************************************************)
GTabs(doc) == json_object_get_array(doc, "gtabs")

Pane(doc, p) ==
  json_array_get_object(json_object_get_array(json_array_get_object(GTabs(doc), 1), "panes"), p)

PTabs(doc, p) == json_object_get_array(Pane(doc, p), "ptabs")

DHistory(doc, p) ==
  json_object_get_array(json_array_get_object(PTabs(doc, p), 1), "history")

Dirs(history) == [i \in 1..Len(history) |-> history[i].dir]

\* the view of pane p of the saving instance
PaneView(p) == IF p = 1 THEN live[1].lwin ELSE live[1].rwin

\* directories of the in-memory history of a view, up to its position
InMemoryDirs(view) == {view.history[i].dir : i \in 1..(view.history_pos + 1)}

\* entries of a history whose directory is in the set, in order
RECURSIVE WithDirsIn(_, _)
WithDirsIn(history, set) ==
  IF history = <<>> THEN <<>>
  ELSE IF Head(history).dir \in set
  THEN <<Head(history)>> \o WithDirsIn(Tail(history), set)
  ELSE WithDirsIn(Tail(history), set)

\* merge_tabs reaches merge_dhistory for pane p
TabsMergeable(p) ==
  /\ "dhistory" \in live[1].vifm_info
  /\ Len(GTabs(Cur)) = 1 /\ Len(GTabs(Adm)) = 1
  /\ Len(PTabs(Cur, p)) = 1 /\ Len(PTabs(Adm, p)) = 1

\* merge_dhistory does not return early for pane p
DHistoryMerges(p) ==
  /\ TabsMergeable(p)
  /\ live[1].history_len - 1 - PaneView(p).history_pos # 0
  /\ Len(DHistory(Adm, p)) > 0

(***************************************************************************)
(* C11: when merge_dhistory merges, the pane history of the result is the  *)
(* admixture entries whose directory is not in the view's in-memory        *)
(* history and is a directory on disk, in admixture order, followed by all *)
(* of current's entries; an entry whose directory is gone is not merged.   *)
(***************************************************************************)
C11_MergeDHistory ==
  Merged =>
    \A p \in {1, 2} :
       DHistoryMerges(p) =>
         /\ DHistory(Res, p) =
              WithDirsIn(DHistory(Adm, p),
                         live[1].dirs_on_disk \ InMemoryDirs(PaneView(p)))
              \o DHistory(Cur, p)
         /\ \A i \in 1..Len(DHistory(Res, p)) :
               DHistory(Res, p)[i].dir \notin live[1].dirs_on_disk
                 => DHistory(Res, p)[i].dir \in Range(Dirs(DHistory(Cur, p)))

\* the other instance visited /w and /x and /x is gone: only /w is put in
\* front of the directory of the saving instance
C11_Witness ==
  /\ Merged
  /\ DHistoryMerges(1)
  /\ Dirs(DHistory(Adm, 1)) = <<"/w", "/x">>
  /\ "/x" \notin live[1].dirs_on_disk
  /\ Dirs(DHistory(Cur, 1)) = <<"/l">>
  /\ Dirs(DHistory(Res, 1)) = <<"/w", "/l">>

(***************************************************************************)
(* C12: merge_dhistory puts at most cfg.history_len - 1 - view->history_pos *)
(* admixture entries in front of current's, so the merged pane history     *)
(* holds at most cfg.history_len entries.                                  *)
(***************************************************************************)
C12_DHistoryBounded ==
  Merged =>
    \A p \in {1, 2} :
       TabsMergeable(p) =>
         /\ Len(DHistory(Res, p)) - Len(DHistory(Cur, p))
              <= live[1].history_len - 1 - PaneView(p).history_pos
         /\ Len(DHistory(Res, p)) <= live[1].history_len

(***************************************************************************)
(* C13: the directory history of a pane is merged only when current and    *)
(* admixture have exactly one global tab each and the pane has exactly one *)
(* pane tab on both sides and the directory-history flag is set; otherwise *)
(* the pane is left exactly as captured.  Each pane is decided on its own. *)
(***************************************************************************)
C13_MergeTabs ==
  Merged =>
    \A p \in {1, 2} :
       /\ ~TabsMergeable(p) => Pane(Res, p) = Pane(Cur, p)
       /\ DHistory(Res, p) # DHistory(Cur, p) => TabsMergeable(p)

\* the admixture has two pane tabs in its left pane, with a directory that
\* is new to the saving instance, and one in its right pane: the left pane
\* stays as captured and the right pane gets /z
C13_Witness ==
  /\ Merged
  /\ Len(GTabs(Adm)) = 1
  /\ Len(PTabs(Adm, 1)) = 2
  /\ Dirs(DHistory(Adm, 1)) = <<"/w", "/x">>
  /\ Dirs(DHistory(Cur, 1)) = <<"/l">>
  /\ Pane(Res, 1) = Pane(Cur, 1)
  /\ Len(PTabs(Adm, 2)) = 1
  /\ Dirs(DHistory(Cur, 2)) = <<"/r">>
  /\ Dirs(DHistory(Res, 2)) = <<"/z", "/r">>

(***************************************************************************)
(* C14: after merge_trash every admixture entry that has a trashed and an  *)
(* original path and that current does not hold is in the trash list of    *)
(* the result, also when the saving instance's own trash is empty; an      *)
(* entry that current holds is not appended again.                         *)
(***************************************************************************)
C14_TrashAppendMissing ==
  Merged =>
    LET cur == json_object_get_array(Cur, "trash")
        upd == json_object_get_array(Adm, "trash")
        res == json_object_get_array(Res, "trash")
    IN /\ \A i \in 1..Len(upd) :
             (get_str(upd[i], "trashed") /\ get_str(upd[i], "original")
              /\ upd[i] \notin Range(cur))
               => upd[i] \in Range(res)
       /\ \A i \in 1..Len(cur) :
             Cardinality({j \in 1..Len(res) : res[j] = cur[i]})
               = Cardinality({j \in 1..Len(cur) : cur[j] = cur[i]})

(***************************************************************************)
(* C15: merge_regs adds an admixture register, with its whole file list in *)
(* order, only under a name that current does not have; a register of      *)
(* current keeps its place and exactly its own file list.                  *)
(***************************************************************************)
C15_MergeRegs ==
  (Merged /\ "registers" \in live[1].vifm_info) =>
    LET cur == json_object_get_object(Cur, "regs")
        upd == json_object_get_object(Adm, "regs")
        res == json_object_get_object(Res, "regs")
    IN /\ Len(res) >= Len(cur)
       /\ SubSeq(res, 1, Len(cur)) = cur
       /\ \A j \in (Len(cur) + 1)..Len(res) :
             /\ ~json_object_has_value(cur, res[j].name)
             /\ \E i \in 1..Len(upd) : upd[i] = res[j]
       /\ \A i \in 1..Len(upd) :
             ~json_object_has_value(cur, upd[i].name) =>
                \E j \in 1..Len(res) : res[j] = upd[i]

\* both sides have register a with different files, the admixture also has b
C15_Witness ==
  /\ Merged
  /\ json_object_get_object(Cur, "regs") = <<[name |-> "a", value |-> <<"/p1">>]>>
  /\ json_object_get_object(Adm, "regs") =
       <<[name |-> "a", value |-> <<"/p2", "/p1">>],
         [name |-> "b", value |-> <<"/p2", "/p1">>]>>
  /\ json_object_get_object(Res, "regs") =
       <<[name |-> "a", value |-> <<"/p1">>],
         [name |-> "b", value |-> <<"/p2", "/p1">>]>>

(***************************************************************************)
(* C16: for assocs, xassocs and viewers, merge_assocs appends an admixture *)
(* entry if and only if no entry of current has the same matchers and      *)
(* command; current's entries keep their positions.                        *)
(***************************************************************************)
\* entries of upd that have matchers and a command and whose pair of the two
\* no entry of cur has, in order
RECURSIVE NewPairs(_, _)
NewPairs(upd, cur) ==
  IF upd = <<>> THEN <<>>
  ELSE IF /\ get_str(Head(upd), "matchers") /\ get_str(Head(upd), "cmd")
          /\ \A i \in 1..Len(cur) :
                cur[i].matchers # Head(upd).matchers \/ cur[i].cmd # Head(upd).cmd
  THEN <<Head(upd)>> \o NewPairs(Tail(upd), cur)
  ELSE NewPairs(Tail(upd), cur)

C16_MergeAssocs ==
  (Merged /\ "filetypes" \in live[1].vifm_info) =>
    \A node \in AssocNodes :
       json_object_get_array(Res, node) =
         json_object_get_array(Cur, node)
         \o NewPairs(json_object_get_array(Adm, node), json_object_get_array(Cur, node))

\* the admixture has the entry current has, one with another command under
\* the same matchers and one without a command
C16_Witness ==
  /\ Merged
  /\ json_object_get_array(Cur, "xassocs") =
       <<[matchers |-> "{*.png}", cmd |-> <<"v">>], [matchers |-> "{*.jpg}", cmd |-> <<"v">>]>>
  /\ json_object_get_array(Adm, "xassocs") =
       <<[matchers |-> "{*.jpg}", cmd |-> <<"v">>], [matchers |-> "{*.jpg}", cmd |-> <<"w">>]>>
  /\ json_object_get_array(Res, "xassocs") =
       <<[matchers |-> "{*.png}", cmd |-> <<"v">>], [matchers |-> "{*.jpg}", cmd |-> <<"v">>],
         [matchers |-> "{*.jpg}", cmd |-> <<"w">>]>>

(***************************************************************************)
(* C17: merge_dir_stack replaces the whole dir-stack of current by the     *)
(* admixture's when the directory stack was not changed during the run of  *)
(* the instance and leaves it as captured when it was changed; the result  *)
(* is one of the two stacks, never a mix.                                  *)
(***************************************************************************)
C17_MergeDirStack ==
  (Merged /\ "dirstack" \in live[1].vifm_info) =>
    LET cur == json_object_get_array(Cur, "dir-stack")
        upd == json_object_get_array(Adm, "dir-stack")
        res == json_object_get_array(Res, "dir-stack")
    IN /\ json_object_has(Res, "dir-stack")
       /\ dir_stack_changed(live[1]) => res = cur
       /\ (~dir_stack_changed(live[1]) /\ json_object_has(Adm, "dir-stack")) => res = upd
       /\ res \in {cur, upd}

\* an unchanged stack of one entry is replaced by the other instance's
C17_Witness ==
  /\ Merged
  /\ ~dir_stack_changed(live[1])
  /\ Len(json_object_get_array(Cur, "dir-stack")) = 1
  /\ Len(json_object_get_array(Adm, "dir-stack")) = 1
  /\ json_object_get_array(Adm, "dir-stack") # json_object_get_array(Cur, "dir-stack")
  /\ json_object_get_array(Res, "dir-stack") = json_object_get_array(Adm, "dir-stack")

(***************************************************************************)
(* C18: options are never merged: the global options array and the options *)
(* array of each pane in the merged document are exactly the captured      *)
(* ones, whatever the admixture holds.                                     *)
(***************************************************************************)
PaneOptions(doc, p) == json_object_get_array(json_array_get_object(PTabs(doc, p), 1), "options")

C18_OptionsNotMerged ==
  Merged =>
    /\ json_object_has(Res, "options") <=> json_object_has(Cur, "options")
    /\ json_object_get_array(Res, "options") = json_object_get_array(Cur, "options")
    /\ \A p \in {1, 2} : PaneOptions(Res, p) = PaneOptions(Cur, p)

\* the admixture has other global options and other options in its left
\* pane, and the merge changed something else in the document
C18_Witness ==
  /\ Merged
  /\ json_object_get_array(Cur, "options") # <<>>
  /\ json_object_get_array(Adm, "options") # <<>>
  /\ json_object_get_array(Adm, "options") # json_object_get_array(Cur, "options")
  /\ PaneOptions(Adm, 1) # <<>>
  /\ PaneOptions(Adm, 1) # PaneOptions(Cur, 1)
  /\ PaneOptions(Cur, 1) # <<>>
  /\ Res # Cur
  /\ json_object_get_array(Res, "options") = json_object_get_array(Cur, "options")

(***************************************************************************)
(* Loading the file at startup and capturing the model again.              *)
(***************************************************************************)
\* load_state has applied the on-disk document to the fresh model
Loaded == pc[1] = "loaded"

\* the document that was loaded
Doc == fs[info_file].doc

\* the first save after the load has captured the model, and vifminfo.json
\* still is the document that was loaded
Recaptured ==
  /\ pc[1] \in {"writing", "written", "monitored"}
  /\ ~did_merge[1]
  /\ vifminfo_mon[1] # 0
  /\ seen[1] = 1

\* the only tab of pane p
PTab(doc, p) == json_array_get_object(PTabs(doc, p), 1)

\* directories a view holds in its history
HeldDirs(view) == {view.history[i].dir : i \in 1..view.history_num}

(***************************************************************************)
(* C19: after load_state every item of each of the four flat histories of  *)
(* the document is held by the history it was loaded into, every directory *)
(* of a pane's history is held by the history of its view, and no history  *)
(* is longer than cfg.history_len.                                         *)
(***************************************************************************)
C19_LoadKeepsAll ==
  Loaded =>
    /\ \A node \in HistNodes :
          /\ Range(json_object_get_array(Doc, node))
                \subseteq Range(live[1][HistField(node)].items)
          /\ Len(live[1][HistField(node)].items) <= live[1].history_len
    /\ \A p \in {1, 2} :
          /\ Range(Dirs(DHistory(Doc, p))) \subseteq HeldDirs(PaneView(p))
          /\ PaneView(p).history_num <= live[1].history_len

(***************************************************************************)
(* C20: the document captured after loading equals the loaded document in  *)
(* every section whose flag is set: commands, marks, bookmarks, registers, *)
(* directory stack, the four flat histories, trash, and for each pane its  *)
(* filters, sorting and directory history.                                 *)
(***************************************************************************)
RoundTripKeys ==
  {"cmds", "marks", "bmarks", "regs", "dir-stack", "cmd-hist", "search-hist",
   "prompt-hist", "lfilt-hist"}

C20_RoundTrip ==
  Recaptured =>
    /\ \A key \in RoundTripKeys :
          SectionFlag(key) \in live[1].vifm_info =>
            json_object_get_array(current[1], key) = json_object_get_array(Doc, key)
    /\ json_object_get_array(current[1], "trash") = json_object_get_array(Doc, "trash")
    /\ \A p \in {1, 2} :
          /\ "state" \in live[1].vifm_info =>
                json_object_get_object(PTab(current[1], p), "filters")
                  = json_object_get_object(PTab(Doc, p), "filters")
          /\ "tui" \in live[1].vifm_info =>
                json_object_get_array(PTab(current[1], p), "sorting")
                  = json_object_get_array(PTab(Doc, p), "sorting")
          /\ "dhistory" \in live[1].vifm_info =>
                json_object_get_array(PTab(current[1], p), "history")
                  = json_object_get_array(PTab(Doc, p), "history")

(***************************************************************************)
(* C21: a field of the wrong type is skipped.  A mark of the on-disk       *)
(* document whose "ts" is not a number is not taken into the merged        *)
(* document and is not loaded as a mark, and a history entry whose         *)
(* "relpos" is not a number is not replayed into the view.                 *)
(***************************************************************************)
Mistyped(obj, key) == WrongType(key) \in DOMAIN obj

Marks(doc) == json_object_get_object(doc, "marks")

C21_MistypedSkipped ==
  /\ Merged =>
       \A i \in 1..Len(Marks(Adm)) :
          Mistyped(Marks(Adm)[i].value, "ts") =>
            \A j \in 1..Len(Marks(Res)) : Marks(Res)[j] # Marks(Adm)[i]
  /\ Loaded =>
       /\ \A i \in 1..Len(Marks(Doc)) :
             Mistyped(Marks(Doc)[i].value, "ts") =>
               \A j \in 1..Len(live[1].marks) :
                  live[1].marks[j].name # Marks(Doc)[i].name
       /\ \A i \in 1..Len(DHistory(Doc, 1)) :
             Mistyped(DHistory(Doc, 1)[i], "relpos") =>
               DHistory(Doc, 1)[i].dir \notin HeldDirs(PaneView(1))

(***************************************************************************)
(* C22: a reread leaves the active pane and the number of windows of the   *)
(* session as they are, whatever the document holds; a first load makes    *)
(* the right pane active when "active-pane" is 1 and takes the number of   *)
(* windows from "expanded".                                                *)
(***************************************************************************)
GTab(doc) == json_array_get_object(GTabs(doc), 1)

Splitter(doc) == json_object_get_object(GTab(doc), "splitter")

C22_RereadKeepsPanes ==
  [][/\ (pc[1] = "restarting" /\ pc'[1] = "reloaded") =>
          /\ live'[1].curr_view = live[1].curr_view
          /\ live'[1].number_of_windows = live[1].number_of_windows
     /\ (pc[1] = "off" /\ pc'[1] = "loaded") =>
          /\ (get_int(GTab(Doc), "active-pane") /\ GTab(Doc)["active-pane"] = 1) =>
                live'[1].curr_view = "rwin"
          /\ get_bool(Splitter(Doc), "expanded") =>
                live'[1].number_of_windows = (IF Splitter(Doc)["expanded"] THEN 1 ELSE 2)
    ]_vars

\* a reread of a document that names the right pane and one window has left
\* a session with the left pane active and two windows as it was, and took
\* the preview flag from the document
C22_Witness ==
  /\ pc[1] = "reloaded"
  /\ get_int(GTab(Doc), "active-pane") /\ GTab(Doc)["active-pane"] = 1
  /\ get_bool(Splitter(Doc), "expanded") /\ Splitter(Doc)["expanded"]
  /\ live[1].curr_view = "lwin"
  /\ live[1].number_of_windows = 2
  /\ live[1].preview

(***************************************************************************)
(* C27 as stated: the captured document has a section exactly when the     *)
(* flag of the section is set, also when the section has no entries.       *)
(***************************************************************************)
Captured == pc[1] \in {"writing", "written", "monitored"}

C27_SectionIffFlag ==
  Captured =>
    \A key \in FlaggedSections :
       json_object_has(Cur, key) <=> SectionFlag(key) \in live[1].vifm_info

(***************************************************************************)
(* C27 amended: a flat history is in the captured document exactly when    *)
(* its flag is set and it holds an item; every other flagged section of    *)
(* the root is there exactly when its flag is set, with or without         *)
(* entries; "trash", which has no flag, is there exactly when the trash    *)
(* list has an entry; a pane tab has "filters", "options" and "sorting"    *)
(* exactly when the state, options and TUI flags are set and "history"     *)
(* exactly when the directory history flag is set and cfg.history_len is   *)
(* positive; the global tab has "active-pane", "preview" and "splitter"    *)
(* exactly when the TUI flag is set.                                       *)
(***************************************************************************)
C27_SectionIffFlagAndItems ==
  Captured =>
    /\ \A key \in FlaggedSections \ HistNodes :
          json_object_has(Cur, key) <=> SectionFlag(key) \in live[1].vifm_info
    /\ \A node \in HistNodes :
          json_object_has(Cur, node) <=>
            (SectionFlag(node) \in live[1].vifm_info /\ live[1][HistField(node)].pos >= 0)
    /\ json_object_has(Cur, "trash") <=> Len(live[1].trash_list) > 0
    /\ \A p \in {1, 2} :
          /\ json_object_has(PTab(Cur, p), "filters") <=> "state" \in live[1].vifm_info
          /\ json_object_has(PTab(Cur, p), "options") <=> "options" \in live[1].vifm_info
          /\ json_object_has(PTab(Cur, p), "sorting") <=> "tui" \in live[1].vifm_info
          /\ json_object_has(PTab(Cur, p), "history") <=>
               ("dhistory" \in live[1].vifm_info /\ live[1].history_len > 0)
    /\ \A key \in {"active-pane", "preview", "splitter"} :
          json_object_has(GTab(Cur), key) <=> "tui" \in live[1].vifm_info

\* one capture with a section that is requested and empty, a history that is
\* requested and has no items, and a section that is not requested
C27_Witness ==
  /\ Captured
  /\ "filetypes" \in live[1].vifm_info
  /\ json_object_has(Cur, "xassocs") /\ json_object_get_array(Cur, "xassocs") = <<>>
  /\ "phistory" \in live[1].vifm_info
  /\ live[1].prompt_hist.pos < 0
  /\ ~json_object_has(Cur, "prompt-hist")
  /\ "marks" \notin live[1].vifm_info
  /\ ~json_object_has(Cur, "marks")
  /\ "chistory" \in live[1].vifm_info /\ json_object_has(Cur, "cmd-hist")

C30_NextSaveMergesIffOtherWrote ==
  [][\A i \in Inst :
       /\ Installs(i) =>
             /\ vifminfo_mon'[i] # 0
             /\ vifminfo_mon'[i] = filemon_from_file(fs'[info_file])
       /\ (pc[i] = "copied" /\ pc'[i] = "compared" /\ installed[i])
             => (vifminfo_changed'[i] <=> installer # i)
       /\ (pc[i] = "compared" /\ pc'[i] = "writing")
             => /\ did_merge'[i] <=> vifminfo_changed[i]
                /\ ~vifminfo_changed[i] => current'[i] = captured'[i]]_vars

\* after its own successful save and a save of the other instance, an
\* instance is writing a merged document that holds entries its capture lacks
C30_Witness ==
  \E i \in Inst :
     /\ pc[i] = "writing"
     /\ installed[i]
     /\ installer # i /\ installer # 0
     /\ did_merge[i]
     /\ current[i] # captured[i]

(***************************************************************************)
(* The numbers of a sort line, read off the line as a whole: a number is a *)
(* longest run of digits, negative when "-" stands right before it.        *)
(***************************************************************************)
SortLine == PTab(Doc, 1)["sorting"]

RunStarts(line) ==
  {p \in 1..Len(line) : IsDigit(line[p]) /\ (p = 1 \/ ~IsDigit(line[p - 1]))}

RunEnd(line, p) ==
  CHOOSE q \in p..Len(line) :
    /\ \A r \in p..q : IsDigit(line[r])
    /\ (q = Len(line) \/ ~IsDigit(line[q + 1]))

RECURSIVE Pow10(_)
Pow10(n) == IF n = 0 THEN 1 ELSE 10 * Pow10(n - 1)

RECURSIVE RunSum(_, _, _)
RunSum(line, p, q) ==
  IF p > q THEN 0 ELSE DigitVal(line[p]) * Pow10(q - p) + RunSum(line, p + 1, q)

RunNumber(line, p) ==
  IF p > 1 /\ line[p - 1] = "-" THEN 0 - RunSum(line, p, RunEnd(line, p))
  ELSE RunSum(line, p, RunEnd(line, p))

\* where the k-th number of the line starts
KthRun(starts, k) == CHOOSE p \in starts : Cardinality({s \in starts : s < p}) = k - 1

Clamped(n) == IF n > SK_LAST THEN SK_LAST ELSE IF n < 0 - SK_LAST THEN 0 - SK_LAST ELSE n

\* the slots of a view whose keys are the numbers that start at starts
SlotsOf(line, starts) ==
  [j \in 1..SK_COUNT |->
     IF j <= Cardinality(starts) THEN Clamped(RunNumber(line, KthRun(starts, j)))
     ELSE IF j = 1 THEN SK_DEFAULT ELSE SK_NONE]

\* positions of the line where no number and no comma stands
Unparseable(line) ==
  {p \in 1..Len(line) :
     /\ ~IsDigit(line[p])
     /\ line[p] # ","
     /\ ~(line[p] \in {"-", "+"} /\ p < Len(line) /\ IsDigit(line[p + 1]))}

(***************************************************************************)
(* C28 as stated: parsing stops at the first unparseable token, so the     *)
(* keys of the view are the numbers that start before it.                  *)
(***************************************************************************)
C28_StopsAtUnparseable ==
  Loaded =>
    LET stop == IF Unparseable(SortLine) = {} THEN Len(SortLine) + 1
                ELSE CHOOSE p \in Unparseable(SortLine) :
                       \A q \in Unparseable(SortLine) : p <= q
    IN live[1].lwin.sort =
         SlotsOf(SortLine, {p \in RunStarts(SortLine) : p < stop})

(***************************************************************************)
(* C28 amended: get_sort_info reads the signed integers of the line from   *)
(* left to right, passing over commas and over every character no number   *)
(* starts with, without stopping there; it stores each number clamped to   *)
(* -SK_LAST..SK_LAST until the line ends or SK_COUNT keys are stored, sets *)
(* every slot it did not fill to SK_NONE, and the first slot to SK_DEFAULT *)
(* when the line held no number.  Every iteration of its loop shortens     *)
(* what is left of the line, so it terminates.                             *)
(***************************************************************************)
C28_SortInfoParsed ==
  Loaded =>
    /\ live[1].lwin.sort = SlotsOf(SortLine, RunStarts(SortLine))
    /\ \A n \in 1..Len(SortLine) :
          LET rest == SubSeq(SortLine, n, Len(SortLine))
          IN Len(sort_loop_step(rest, <<>>).line) < Len(rest)

\* a line with a character no number contains, a number above SK_LAST, a
\* comma and a negative number
C28_Witness ==
  /\ Loaded
  /\ SortLine = <<"x", "1", "7", ",", "-", "2">>
  /\ live[1].lwin.sort = <<SK_LAST, 0 - 2, SK_NONE>>

(***************************************************************************)
(* C23: read_info_file loads the document of vifminfo.json when that file  *)
(* can be parsed, whatever the legacy file holds; it reads the legacy file *)
(* only when vifminfo.json is absent or cannot be parsed; when the legacy  *)
(* file cannot be opened either, it returns and neither the live model nor *)
(* the baseline has changed.  No step of a read or of a save changes the   *)
(* legacy file.                                                            *)
(***************************************************************************)
Legacy == fs[legacy_info_file]

C23_LegacyOnlyAsFallback ==
  [][/\ fs'[legacy_info_file] = fs[legacy_info_file]
     /\ (pc[1] = "off" /\ pc'[1] # "off") =>
          /\ json_parse_ok(fs[info_file]) =>
                /\ pc'[1] = "loaded"
                /\ live'[1] = load_state(fs[info_file].doc, FALSE, live[1])
          /\ (~json_parse_ok(fs[info_file]) /\ Legacy.exists) =>
                /\ pc'[1] = "loaded"
                /\ live'[1] = load_state(legacy_lines(legacy_root, Legacy.doc), FALSE, live[1])
          /\ (~json_parse_ok(fs[info_file]) /\ ~Legacy.exists) =>
                /\ pc'[1] = "idle"
                /\ live'[1] = live[1]
                /\ vifminfo_mon' = vifminfo_mon]_vars

\* vifminfo.json is there and cannot be parsed, and the instance has the
\* mark of the legacy file
C23_Witness ==
  /\ Loaded
  /\ fs[info_file].exists /\ ~fs[info_file].complete
  /\ Legacy.exists
  /\ \E i \in 1..Len(live[1].marks) :
        live[1].marks[i].name = "h" /\ live[1].marks[i].directory = "/adm"

(***************************************************************************)
(* The legacy file of the instance that has loaded it, when it begins with *)
(* the mark record and no later line has the tag of a mark.                *)
(***************************************************************************)
LegacyLoaded == Loaded /\ ~json_parse_ok(fs[info_file]) /\ Legacy.exists

OneMarkFile ==
  /\ LegacyLoaded
  /\ Len(Legacy.doc) >= 3
  /\ SubSeq(Legacy.doc, 1, 3) = MarkLines
  /\ \A n \in 4..Len(Legacy.doc) : FirstChar(Legacy.doc[n]) # LINE_TYPE.MARK

\* the line is an optional sign and digits, one at least, and nothing else
IsNumberLine(line) ==
  /\ line # <<>>
  /\ \E p \in 1..2 :
        /\ p <= Len(line)
        /\ p = 2 => line[1] \in {"-", "+"}
        /\ \A q \in p..Len(line) : IsDigit(line[q])

\* the line starts with digits, or with a sign and digits
StartsWithNumber(line) ==
  /\ line # <<>>
  /\ \/ IsDigit(line[1])
     \/ line[1] \in {"-", "+"} /\ Len(line) >= 2 /\ IsDigit(line[2])

\* the number a line starts with and what the line has after it
FirstNumber(line) == RunNumber(line, IF IsDigit(line[1]) THEN 1 ELSE 2)

AfterNumber(line) ==
  SubSeq(line, RunEnd(line, IF IsDigit(line[1]) THEN 1 ELSE 2) + 1, Len(line))

TheMark(ts) == [name |-> "h", directory |-> "/adm", file |-> "g", timestamp |-> ts]

(***************************************************************************)
(* C24 as stated: the one mark has the explicit timestamp when the         *)
(* timestamp line is present and is a number, and the current time         *)
(* otherwise.                                                              *)
(***************************************************************************)
C24_ExplicitTimestamp ==
  OneMarkFile =>
    live[1].marks =
      <<TheMark(IF Len(Legacy.doc) >= 4 /\ IsNumberLine(Legacy.doc[4])
                THEN FirstNumber(Legacy.doc[4]) ELSE time_now)>>

(***************************************************************************)
(* C24 amended: loading produces exactly one mark with the name, directory *)
(* and file of the record.  Its timestamp is the number the line after the *)
(* file line starts with, when that line starts with digits or with a sign *)
(* and digits and the number is not -1; it is the current time otherwise,  *)
(* also for an explicit -1.  What the line has after the number is read as *)
(* a line of its own, and a line no number was read from is read as the    *)
(* tag line of the next record; the records that follow are parsed as they *)
(* are without the mark record before them.                                *)
(***************************************************************************)
C24_LegacyMark ==
  OneMarkFile =>
    LET lines == Legacy.doc
        numbered == Len(lines) >= 4 /\ StartsWithNumber(lines[4])
        ts == IF numbered /\ FirstNumber(lines[4]) # -1 THEN FirstNumber(lines[4])
              ELSE time_now
        rest == IF ~numbered THEN SubSeq(lines, 4, Len(lines))
                ELSE IF AfterNumber(lines[4]) = <<>> THEN SubSeq(lines, 5, Len(lines))
                ELSE <<AfterNumber(lines[4])>> \o SubSeq(lines, 5, Len(lines))
        marked == [legacy_root EXCEPT !["marks"] =
                     <<[name |-> "h", value |-> [dir |-> "/adm", file |-> "g", ts |-> ts]]>>]
    IN /\ live[1].marks = <<TheMark(ts)>>
       /\ live[1] = load_state(legacy_lines(marked, rest), FALSE, LegacyModel)

\* a mark with an explicit timestamp and the command of the record after it
C24_Witness ==
  /\ OneMarkFile
  /\ Legacy.doc = MarkLines \o << <<"1", "5", "0">>, <<"!", "c0">>, <<"echo">> >>
  /\ live[1].marks = <<TheMark(150)>>
  /\ live[1].cmds = <<[name |-> "c0", body |-> "echo"]>>

(***************************************************************************)
(* C25: when the last record of a legacy file lacks a follow-up line it    *)
(* requires, the instance is loaded as it is from the file without that    *)
(* record: the record adds nothing and the records before it are kept.     *)
(***************************************************************************)
\* the lines a record of the kind cannot do without; 1 for the other kinds
RequiredLines(type) ==
  IF type \in {LINE_TYPE.FILETYPE, LINE_TYPE.XFILETYPE, LINE_TYPE.FILEVIEWER,
               LINE_TYPE.COMMAND, LINE_TYPE.LWIN_HIST, LINE_TYPE.RWIN_HIST,
               LINE_TYPE.TRASH} THEN 2
  ELSE IF type \in {LINE_TYPE.MARK, LINE_TYPE.BOOKMARK} THEN 3
  ELSE IF type = LINE_TYPE.DIR_STACK THEN 4
  ELSE 1

\* every line of the record belongs to it: a mark has no fourth line or a
\* number there
Completed(a) == a \notin MarkRecords \/ Len(a) = 3 \/ IsNumberLine(a[4])

\* the file is the completed record a and the first k lines of b, fewer than
\* b requires
CutOff(lines, a, b, k) ==
  /\ Completed(a)
  /\ k >= 1
  /\ k < RequiredLines(FirstChar(b[1]))
  /\ Len(b[1]) >= 2
  /\ lines = a \o SubSeq(b, 1, k)

C25_CutOffRecordDropped ==
  LegacyLoaded =>
    \A a \in LegacyRecords \cup {<<>>}, b \in MarkRecords \cup FollowUpRecords,
       k \in 1..3 :
       CutOff(Legacy.doc, a, b, k) =>
         live[1] = load_state(legacy_lines(legacy_root, a), FALSE, LegacyModel)

\* a command and then a mark record that ends after its directory line
C25_Witness ==
  /\ LegacyLoaded
  /\ Legacy.doc = << <<"!", "c0">>, <<"echo">>, <<"'", "h">>, <<"/adm">> >>
  /\ live[1].cmds = <<[name |-> "c0", body |-> "echo"]>>
  /\ live[1].marks = <<>>

(***************************************************************************)
(* C26 as stated, for the properties of a pane: after a legacy file with   *)
(* the auto-filter of the left pane is loaded the pane has that filter,    *)
(* and after one with its dotfiles property set to 0 the pane shows dot    *)
(* files.                                                                  *)
(***************************************************************************)
HasLine(line) == \E n \in 1..Len(Legacy.doc) : Legacy.doc[n] = line

C26_PaneSpecificApplied ==
  LegacyLoaded =>
    /\ (HasLine(<<"[", "F", "aut">>) /\ Len(Legacy.doc) = 1)
          => live[1].lwin.auto_filter = "aut"
    /\ (HasLine(<<"[", ".", "0">>) /\ Len(Legacy.doc) = 1)
          => ~live[1].lwin.hide_dot

(***************************************************************************)
(* C31: the temporary file of an instance is its own.  A step changes a    *)
(* temporary file only when it is a step of the instance the file is named *)
(* after, so what an instance wrote there is what it finds there and what  *)
(* its rename installs; and the rename step, which ends the cycle, leaves  *)
(* no temporary file of the instance behind, whether it succeeds or fails. *)
(***************************************************************************)
\* "<config-dir>/vifminfo.json_<pid>"
TempOf(pid) == pid

TempPaths == {TempOf(i) : i \in Inst}

C31_OwnTempFile ==
  [][/\ \A p \in Paths \ {info_file} :
           fs'[p] # fs[p] =>
              \E i \in Inst : p = TempOf(i) /\ (pc'[i] # pc[i] \/ nsaves'[i] # nsaves[i])
     /\ \A i \in Inst :
           /\ pc[i] \in {"written", "monitored"} =>
                 /\ fs[TempOf(i)].complete
                 /\ fs[TempOf(i)].doc = current[i]
           /\ (pc[i] = "monitored" /\ pc'[i] = "idle") =>
                 /\ ~fs'[TempOf(i)].exists
                 /\ rename_status'[i] = "ok" => fs'[info_file].doc = current[i]
                 /\ rename_status'[i] = "failed" => fs'[info_file] = fs[info_file]
                 /\ rename_status'[i] \in {"ok", "failed"}]_vars

\* both instances are in the middle of a save, each with its own document
\* in its own temporary file
C31_Witness ==
  /\ pc[1] = "written"
  /\ pc[2] = "monitored"
  /\ fs[TempOf(1)].exists
  /\ fs[TempOf(2)].exists
  /\ fs[TempOf(1)].doc # fs[TempOf(2)].doc
  /\ fs[TempOf(1)].doc = current[1]
  /\ fs[TempOf(2)].doc = current[2]

(***************************************************************************)
(* C32 as stated: the array of a flat history starts with the most recent  *)
(* item, and once the merged file is loaded the entries that only the      *)
(* admixture had are the most recent items of the history in memory.       *)
(***************************************************************************)
\* instance 2 reads the file that instance 1 installed after a merge
LoadsMerged ==
  /\ pc[2] = "off"
  /\ pc'[2] = "loaded"
  /\ installer = 1
  /\ did_merge[1]

\* the nodes whose lists are as the program keeps them: no item twice, and
\* the reader's capacity holds the merged list
PlainNodes ==
  {node \in HistNodes :
     /\ NoRepeat(json_object_get_array(Cur, node))
     /\ NoRepeat(json_object_get_array(Res, node))
     /\ Len(json_object_get_array(Res, node)) > 0
     /\ Len(json_object_get_array(Res, node)) <= live'[2].history_len}

\* the entries merge_history put ahead of current's
AdmixtureBlock(node) ==
  SubSeq(json_object_get_array(Res, node), 1,
         Len(json_object_get_array(Res, node)) - Len(json_object_get_array(Cur, node)))

\* items[0] is the most recent item of a hist_t
Newest(hist, n) == SubSeq(hist.items, 1, n)

Oldest(hist, n) == SubSeq(hist.items, Len(hist.items) - n + 1, Len(hist.items))

C32_AdmixtureBlockNewest ==
  [][LoadsMerged =>
       \A node \in PlainNodes :
          LET cur == json_object_get_array(Cur, node)
              k == Len(AdmixtureBlock(node))
          IN /\ Len(cur) > 0 => cur[1] = live[1][HistField(node)].items[1]
             /\ Range(Newest(live'[2][HistField(node)], k))
                   = Range(AdmixtureBlock(node))]_vars

(***************************************************************************)
(* C32, amended: the array of a flat history runs from the oldest item to  *)
(* the most recent one; once the merged file is loaded by an instance with *)
(* room for it, the history in memory is the merged array read backwards,  *)
(* so current's entries are its most recent items and the entries that     *)
(* only the admixture had are its oldest items.                            *)
(***************************************************************************)
C32_AdmixtureBlockOldest ==
  [][LoadsMerged =>
       \A node \in PlainNodes :
          LET cur == json_object_get_array(Cur, node)
              res == json_object_get_array(Res, node)
              k == Len(AdmixtureBlock(node))
              hist == live'[2][HistField(node)]
          IN /\ cur = Reverse(live[1][HistField(node)].items)
             /\ fs[info_file].doc[node] = res
             /\ hist.items = Reverse(res)
             /\ hist.pos = Len(res) - 1
             /\ Newest(hist, Len(cur)) = Reverse(cur)
             /\ Oldest(hist, k) = Reverse(AdmixtureBlock(node))]_vars

\* [b, a] merged with [c, a] was installed as [c, b, a] and loaded: a is the
\* most recent item and c, which only the admixture had, the oldest
C32_Witness ==
  /\ pc[2] = "loaded"
  /\ installer = 1
  /\ did_merge[1]
  /\ json_object_get_array(Cur, "cmd-hist") = <<"b", "a">>
  /\ json_object_get_array(Res, "cmd-hist") = <<"c", "b", "a">>
  /\ live[1].cmd_hist.items = <<"a", "b">>
  /\ live[2].cmd_hist.items = <<"a", "b", "c">>

(***************************************************************************)
(* C33: load_dhistory puts the stored entries that have a directory, a     *)
(* file and a position after the entries the view has, in stored order and *)
(* with a negative position replaced by 0; the current directory of the    *)
(* view becomes the directory of the last such entry exactly when the      *)
(* restore-last-location key is true, the load is not a reread and there   *)
(* is such an entry, and it stays as it was otherwise.                     *)
(***************************************************************************)
LeftTab == fs[info_file].doc["gtabs"][1]["panes"][1]["ptabs"][1]

\* the stored entries that are replayed
Replayed ==
  SelectSeq(LeftTab["history"], LAMBDA e : {"dir", "file", "relpos"} \subseteq DOMAIN e)

Clamp(e) ==
  [dir |-> e.dir, file |-> e.file, rel_pos |-> IF e.relpos < 0 THEN 0 ELSE e.relpos]

\* the entries one after another; an entry for the directory that the
\* history ends with already adds nothing
RECURSIVE ReplayInto(_, _)
ReplayInto(history, entries) ==
  IF entries = <<>> THEN history
  ELSE ReplayInto(IF history # <<>> /\ history[Len(history)].dir = Head(entries).dir
                  THEN history
                  ELSE Append(history, Clamp(Head(entries))),
                  Tail(entries))

RestoresLocation(reread) ==
  /\ "restore-last-location" \in DOMAIN LeftTab
  /\ LeftTab["restore-last-location"]
  /\ ~reread
  /\ Replayed # <<>>

C33_LoadDHistory ==
  [][\A reread \in BOOLEAN :
        (/\ pc[1] = (IF reread THEN "restarting" ELSE "off")
         /\ pc'[1] = (IF reread THEN "reloaded" ELSE "loaded"))
        => LET view == live'[1].lwin
           IN /\ view.history = ReplayInto(live[1].lwin.history, Replayed)
              /\ view.history_num = Len(view.history)
              /\ view.history_pos = IF Replayed = <<>> THEN live[1].lwin.history_pos
                                    ELSE Len(view.history) - 1
              /\ \A n \in 1..Len(view.history) : view.history[n].rel_pos >= 0
              /\ view.curr_dir = IF RestoresLocation(reread)
                                 THEN Replayed[Len(Replayed)].dir
                                 ELSE live[1].lwin.curr_dir
              /\ live'[1].rwin.curr_dir = live[1].rwin.curr_dir]_vars

\* a fresh instance replayed /x (position -3), skipped the entry without a
\* file and replayed /y, and is now in /y
C33_Witness ==
  /\ pc[1] = "loaded"
  /\ LeftTab["history"] = <<[dir |-> "/x", file |-> "f", relpos |-> 0 - 3],
                            [dir |-> "/w", relpos |-> 1],
                            [dir |-> "/y", file |-> "f", relpos |-> 2]>>
  /\ "restore-last-location" \in DOMAIN LeftTab
  /\ LeftTab["restore-last-location"]
  /\ live[1].lwin.history = <<[dir |-> "/x", file |-> "f", rel_pos |-> 0],
                              [dir |-> "/y", file |-> "f", rel_pos |-> 2]>>
  /\ live[1].lwin.curr_dir = "/y"

(***************************************************************************)
(* C34: replace_double_comma drops the second comma of every pair of       *)
(* commas, pairs being counted from the left within a run of commas, and   *)
(* keeps every other character in place; a string without commas comes     *)
(* back as it is, and the three strings of the tests give the results the  *)
(* tests expect.  Hence the command that store_assocs wrote with its       *)
(* commas doubled comes back as the command it was, and the instance that  *)
(* loads it has one record with that command.                              *)
(***************************************************************************)
WrittenCmd == fs[info_file].doc["assocs"][1].cmd

\* the commas right before position i
CommasBefore(str, i) ==
  Cardinality({j \in 1..(i - 1) : \A k \in j..(i - 1) : str[k] = ","})

\* the positions that are kept: all but the second comma of each pair
KeptPositions(str) ==
  {i \in 1..Len(str) : str[i] # "," \/ CommasBefore(str, i) % 2 = 0}

Undoubled(str) ==
  [n \in 1..Cardinality(KeptPositions(str)) |->
     str[CHOOSE i \in KeptPositions(str) :
           Cardinality({j \in KeptPositions(str) : j <= i}) = n]]

\* the command bodies whose written form is the string
BodiesOf(str) == {c \in CmdStrings : double_char(c) = str}

LoadedRecords == live[1].filetypes[Len(live[1].filetypes)].records

C34_ReplaceDoubleComma ==
  /\ replace_double_comma(WrittenCmd) = Undoubled(WrittenCmd)
  /\ "," \notin Range(WrittenCmd) => replace_double_comma(WrittenCmd) = WrittenCmd
  /\ replace_double_comma(<<"echo something">>) = <<"echo something">>
  /\ replace_double_comma(<<"echo tpattern", ",", ",", "with", ",", ",", "comma">>)
        = <<"echo tpattern", ",", "with", ",", "comma">>
  /\ replace_double_comma(<<"echo first", ",", ",", "one", ",", "echo second",
                            ",", ",", "one">>)
        = <<"echo first", ",", "one", ",", "echo second", ",", "one">>
  /\ \A c \in BodiesOf(WrittenCmd) :
        /\ store_assoc_records("{*.c}", <<[command |-> c, description |-> <<>>,
                                           type |-> "user"]>>)
              = IF c = <<>> THEN <<>> ELSE <<[matchers |-> "{*.c}", cmd |-> WrittenCmd]>>
        /\ replace_double_comma(WrittenCmd) = c
        /\ (pc[1] \in {"loaded", "idle"} /\ c # <<>>)
              => LoadedRecords = <<[command |-> c, description |-> <<>>, type |-> "user"]>>

\* the command e,e was written as e,,e and loaded as one record with the
\* command e,e
C34_Witness ==
  /\ pc[1] = "loaded"
  /\ WrittenCmd = <<"e", ",", ",", "e">>
  /\ replace_double_comma(WrittenCmd) = <<"e", ",", "e">>
  /\ LoadedRecords = <<[command |-> <<"e", ",", "e">>, description |-> <<>>,
                        type |-> "user"]>>

(***************************************************************************)
(* C35 as stated: the captured global tab has "splitter", "active-pane"    *)
(* and "preview" exactly when the TUI flag is set, and each of its pane    *)
(* tabs has "filters" and "options", and "history" when cfg.history_len is *)
(* positive, whether the TUI flag is set or not.                           *)
(***************************************************************************)
TuiKeys == {"splitter", "active-pane", "preview"}

OtherTui(m) ==
  [m EXCEPT !.vifm_info = IF "tui" \in @ THEN @ \ {"tui"} ELSE @ \cup {"tui"}]

PaneKeys == {"history", "filters", "options"}

OwnFlag(key, m) ==
  CASE key = "history" -> "dhistory" \in m.vifm_info /\ m.history_len > 0
    [] key = "filters" -> "state" \in m.vifm_info
    [] key = "options" -> "options" \in m.vifm_info

CopyFails(i) ==
  /\ pc[i] = "idle"
  /\ nsaves'[i] = nsaves[i] + 1
  /\ pc'[i] = "idle"

C36_FailedCopyAbandons ==
  [][\A i \in Inst :
       /\ (pc[i] = "idle" /\ pc'[i] = "copied" /\ fs[info_file].exists) =>
             /\ fs'[tmp_file(i)].exists
             /\ fs'[tmp_file(i)].complete = fs[info_file].complete
             /\ fs'[tmp_file(i)].doc = fs[info_file].doc
       /\ CopyFails(i) =>
         /\ fs[info_file].exists
         /\ fs'[info_file] = fs[info_file]
         /\ \A p \in Paths \ {tmp_file(i)} : fs'[p] = fs[p]
         /\ fs'[tmp_file(i)] \in {fs[tmp_file(i)], PartialFile}
         /\ vifminfo_mon' = vifminfo_mon
         /\ live' = live
         /\ captured' = captured
         /\ current' = current
         /\ did_merge' = did_merge
         /\ clock' = clock
         /\ \A j \in Inst \ {i} : pc'[j] = pc[j]]_vars

\* an instance with changes of its own is idle after a cycle that ended at
\* the copy; a partial temporary file is what is left of it
C36_Witness ==
  \E i \in Inst :
     /\ pc[i] = "idle"
     /\ nsaves[i] = 1
     /\ rename_status[i] = "none"
     /\ edited[i]
     /\ captured[i] = EmptyDoc
     /\ fs[info_file].exists /\ fs[info_file].complete
     /\ fs[tmp_file(i)] = PartialFile
     /\ vifminfo_mon[i] = base[i]
     /\ vifminfo_mon[i] = filemon_from_file(fs[info_file])

(***************************************************************************)
(* C37 as stated: in a save cycle that merges, the version of              *)
(* vifminfo.json that was copied to the temporary file is the version      *)
(* whose fingerprint was compared with the baseline.                       *)
(***************************************************************************)
\* the cycle of instance i is past its comparison and merges
Merging(i) ==
  \/ pc[i] = "compared" /\ vifminfo_changed[i]
  \/ pc[i] \in {"writing", "written", "monitored"} /\ did_merge[i]

C37_SnapshotIsComparedVersion ==
  \A i \in Inst : Merging(i) => snap[i] = seen[i]

(***************************************************************************)
(* C38: merge_states only adds to what the instance captured.  The entries *)
(* of the captured "assocs", "xassocs", "viewers", "cmds", "regs", "trash" *)
(* and flat histories and of the directory history of each pane are all in *)
(* the merged document, with their values and in their order.  A captured  *)
(* mark or bookmark is replaced only by an admixture entry of the same key *)
(* with a newer timestamp and none disappears; the directory stack is      *)
(* replaced only when the stack of the instance was not modified.          *)
(***************************************************************************)
\* s is what is left of t when some entries are taken out of it
RECURSIVE Embeds(_, _)
Embeds(s, t) ==
  IF s = <<>> THEN TRUE
  ELSE IF t = <<>> THEN FALSE
  ELSE IF Head(s) = Head(t) THEN Embeds(Tail(s), Tail(t))
  ELSE Embeds(s, Tail(t))

AppendedArrays == {"assocs", "xassocs", "viewers", "trash"} \cup HistNodes

AppendedObjects == {"cmds", "regs"}

\* a captured entry of a timestamped section is in the merged section, or
\* an admixture entry of its key with a newer timestamp is there in its place
KeptOrNewer(cur, upd, res) ==
  /\ Names(res) = Names(cur) \o Without(Names(res), Range(Names(cur)))
  /\ \A n \in 1..Len(cur) :
        \/ res[n] = cur[n]
        \/ \E k \in 1..Len(upd) :
              /\ upd[k].name = cur[n].name
              /\ res[n] = upd[k]
              /\ get_double(upd[k].value, "ts")
              /\ upd[k].value.ts > cur[n].value.ts

C38_MergeMonotonic ==
  Merged =>
    /\ \A key \in AppendedArrays :
          Embeds(json_object_get_array(Cur, key), json_object_get_array(Res, key))
    /\ \A key \in AppendedObjects :
          Embeds(json_object_get_object(Cur, key), json_object_get_object(Res, key))
    /\ \A p \in {1, 2} : Embeds(DHistory(Cur, p), DHistory(Res, p))
    /\ KeptOrNewer(json_object_get_object(Cur, "marks"),
                   json_object_get_object(Adm, "marks"),
                   json_object_get_object(Res, "marks"))
    /\ KeptOrNewer(json_object_get_object(Cur, "bmarks"),
                   json_object_get_object(Adm, "bmarks"),
                   json_object_get_object(Res, "bmarks"))
    /\ json_object_get_array(Res, "dir-stack") # json_object_get_array(Cur, "dir-stack")
          => ~dir_stack_changed(live[1])

\* the merge added to the search history and the captured items a, b are
\* still there, in their order
C38_Witness ==
  /\ Merged
  /\ json_object_get_array(Cur, "search-hist") = <<"a", "b">>
  /\ json_object_get_array(Adm, "search-hist") = <<"b", "c">>
  /\ json_object_get_array(Res, "search-hist") = <<"c", "a", "b">>
  /\ json_object_get_object(Cur, "cmds") # <<>>
  /\ Len(json_object_get_object(Res, "cmds")) > Len(json_object_get_object(Cur, "cmds"))

(***************************************************************************)
(* C39: when update_info_file merges and the temporary file holds no       *)
(* document that parses (vifminfo.json was not there to be copied, or what *)
(* was copied is not a document), the merged document is the captured one, *)
(* its directory stack included also when the stack of the instance was    *)
(* not modified, and that document is what is written.                     *)
(***************************************************************************)
\* update_info_file merges in this step without an admixture
MergesWithNothing(i) ==
  /\ pc[i] = "compared"
  /\ pc'[i] = "writing"
  /\ vifminfo_changed[i]
  /\ ~json_parse_ok(fs[tmp_file(i)])

C39_NoAdmixtureNoChange ==
  [][\A i \in Inst :
       /\ MergesWithNothing(i) =>
            /\ did_merge'[i]
            /\ captured'[i] = serialize_state(live[i])
            /\ current'[i] = captured'[i]
            /\ json_object_get_array(current'[i], "dir-stack")
                  = json_object_get_array(captured'[i], "dir-stack")
            /\ json_object_has(current'[i], "dir-stack")
                  <=> "dirstack" \in live[i].vifm_info
       /\ (pc[i] = "writing" /\ pc'[i] = "written" /\ did_merge[i] /\ snap[i] = 0) =>
            /\ current[i] = captured[i]
            /\ fs'[tmp_file(i)].complete
            /\ fs'[tmp_file(i)].doc = captured[i]]_vars

\* vifminfo.json does not parse; the instance, whose directory stack came
\* from the legacy file and was not modified since, has written its capture
C39_Witness ==
  /\ pc[1] = "written"
  /\ did_merge[1]
  /\ ~fs[info_file].exists
  /\ ~dir_stack_changed(live[1])
  /\ Len(json_object_get_array(captured[1], "dir-stack")) = 1
  /\ fs[tmp_file(1)].doc = captured[1]

(***************************************************************************)
(* C40: the "options" array captured for a pane is that pane's own: the    *)
(* array of the right pane tab is made of rwin's view settings, the one of *)
(* the left pane tab of lwin's, so that two panes whose view settings      *)
(* differ are captured with different arrays.                              *)
(***************************************************************************)
ViewOf(m, p) == IF p = 1 THEN m.lwin ELSE m.rwin

C40_PaneOptionsOwnView ==
  Captured =>
    /\ \A p \in {1, 2} :
          json_object_has(PTab(Cur, p), "options") =>
             PaneOptions(Cur, p) = ViewOf(live[1], p).options
    /\ (/\ json_object_has(PTab(Cur, 1), "options")
        /\ live[1].lwin.options # live[1].rwin.options) =>
          PaneOptions(Cur, 1) # PaneOptions(Cur, 2)

====
